---- MODULE Spec2Model ----
(***************************************************************************)
(* Model of the search-term classification engine of the Amazon ad agent   *)
(* (server/adAnalyzer.ts): ingestion of rows, tokenisation into feature    *)
(* words, feature-word aggregation, baseline thresholds, the per-record    *)
(* rule cascade and the summary; and of the services beside it: the        *)
(* feature-word analyzer (server/featureWordAnalyzer.ts) and the keyword   *)
(* suggestions drawn from search terms (server/keywordExpander.ts).        *)
(*                                                                         *)
(* Numbers.  A JavaScript number is modelled as an exact extended          *)
(* rational [n, d]: d > 0 is the finite value n/d in lowest terms,         *)
(* [1,0] is +Infinity, [-1,0] is -Infinity and [0,0] is NaN.  Arithmetic   *)
(* is exact (IEEE-754 rounding is not modelled); the IEEE rules for        *)
(* division by zero, Infinity and NaN are.  Counts and sums of the input   *)
(* (clicks, orders, spend, sales, impressions) are integral and are kept   *)
(* as TLA+ integers.                                                       *)
(*                                                                         *)
(* Strings.  A search term is a sequence of one-character strings, a       *)
(* feature word likewise; the empty sequence stands for null / undefined   *)
(* where the code has a nullable word.                                     *)
(***************************************************************************)
EXTENDS Integers, Sequences, FiniteSets, TLC

VARIABLES data, config, summary, run, log

\* featureWordAnalyzer.splitToFeatureWords: its argument and returned array
VARIABLES text, splitWords

\* the feature-word analysis: the search terms given, the analysis result and
\* the two selections made from it
VARIABLES searchTerms, analysis, highPerformers, problemWords

\* suggestFromSearchTerms: its two arguments and the returned suggestions
VARIABLES inputTerms, targetAcos, suggestions

\* parseExcelData: the uploaded rows and the returned records
VARIABLES fileData, searchTermData

\* the analysis_reports table, its auto-increment counter and the calls of the
\* analysis router that are in flight or have ended
VARIABLES reports, nextId, calls

engineVars == <<data, config, summary, run, log>>
splitVars == <<text, splitWords>>
featureWordVars == <<searchTerms, analysis, highPerformers, problemWords>>
suggestVars == <<inputTerms, targetAcos, suggestions>>
ingestVars == <<fileData, searchTermData>>
reportVars == <<reports, nextId, calls>>

vars == <<data, config, summary, run, log, text, splitWords, searchTerms, analysis,
          highPerformers, problemWords, inputTerms, targetAcos, suggestions,
          fileData, searchTermData, reports, nextId, calls>>

----------------------------------------------------------------------------
(* JavaScript numbers *)

Abs(x) == IF x < 0 THEN -x ELSE x

RECURSIVE GCD(_, _)
GCD(a, b) == IF b = 0 THEN a ELSE GCD(b, a % b)

\* the finite number n/d (d # 0), in lowest terms with a positive denominator
Rat(n, d) ==
  LET g == GCD(Abs(n), Abs(d))
      s == IF d < 0 THEN -1 ELSE 1
  IN [n |-> (s * n) \div g, d |-> (s * d) \div g]

I(k) == [n |-> k, d |-> 1]

NaN == [n |-> 0, d |-> 0]
Infinity == [n |-> 1, d |-> 0]
NegInfinity == [n |-> -1, d |-> 0]

IsNaN(x) == x.d = 0 /\ x.n = 0
IsFinite(x) == x.d > 0
Sign(x) == IF x.n > 0 THEN 1 ELSE IF x.n < 0 THEN -1 ELSE 0

\* a < b ; false when either side is NaN
Lt(a, b) ==
  IF IsNaN(a) \/ IsNaN(b) THEN FALSE
  ELSE IF IsFinite(a) /\ IsFinite(b) THEN a.n * b.d < b.n * a.d
  ELSE IF a = b THEN FALSE
  ELSE a = NegInfinity \/ b = Infinity

Gt(a, b) == Lt(b, a)

\* a >= b ; false when either side is NaN
Ge(a, b) == ~IsNaN(a) /\ ~IsNaN(b) /\ ~Lt(a, b)

Mul(a, b) ==
  IF IsNaN(a) \/ IsNaN(b) THEN NaN
  ELSE IF IsFinite(a) /\ IsFinite(b) THEN Rat(a.n * b.n, a.d * b.d)
  ELSE IF Sign(a) * Sign(b) = 0 THEN NaN
  ELSE IF Sign(a) * Sign(b) > 0 THEN Infinity ELSE NegInfinity

\* a / b ; a zero divisor is +0 (the code never divides by a negative zero)
Div(a, b) ==
  IF IsNaN(a) \/ IsNaN(b) THEN NaN
  ELSE IF ~IsFinite(a) /\ ~IsFinite(b) THEN NaN
  ELSE IF ~IsFinite(a) THEN (IF (Sign(a) > 0) = (Sign(b) >= 0) THEN Infinity
                             ELSE NegInfinity)
  ELSE IF ~IsFinite(b) THEN I(0)
  ELSE IF b.n = 0 THEN (IF a.n = 0 THEN NaN
                        ELSE IF a.n > 0 THEN Infinity ELSE NegInfinity)
  ELSE Rat(a.n * b.d, a.d * b.n)

Add(a, b) ==
  IF IsNaN(a) \/ IsNaN(b) THEN NaN
  ELSE IF IsFinite(a) /\ IsFinite(b) THEN Rat(a.n * b.d + b.n * a.d, a.d * b.d)
  ELSE IF ~IsFinite(a) /\ ~IsFinite(b) THEN (IF a = b THEN a ELSE NaN)
  ELSE IF ~IsFinite(a) THEN a ELSE b

\* Math.max / Math.min of two numbers: NaN if either is NaN
MathMax(a, b) == IF IsNaN(a) \/ IsNaN(b) THEN NaN ELSE IF Lt(a, b) THEN b ELSE a
MathMin(a, b) == IF IsNaN(a) \/ IsNaN(b) THEN NaN ELSE IF Lt(b, a) THEN b ELSE a

\* variant: rounds down instead of up
MathCeil_Floor(x) == IF IsFinite(x) THEN I(x.n \div x.d) ELSE x

\* Math.ceil: the infinities and NaN are returned unchanged
MathCeil(x) == IF IsFinite(x) THEN I((x.n + x.d - 1) \div x.d) ELSE x

----------------------------------------------------------------------------
(* Tokenizer of adAnalyzer.ts *)

UpperCase == {"A", "B", "N"}
LowerOf == [c \in UpperCase |-> CASE c = "A" -> "a" [] c = "B" -> "b" [] c = "N" -> "n"]

\* String.prototype.toLowerCase
toLowerCase(s) == [i \in 1..Len(s) |-> IF s[i] \in UpperCase THEN LowerOf[s[i]] ELSE s[i]]

\* the character class [\s\-_,./\\] of the split pattern
Delimiters == {" ", "\t", "-", "_", ",", ".", "/", "\\"}

\* String.prototype.split on a pattern [D]+ : a run of delimiters separates
\* two pieces; a leading or trailing run yields an empty piece
RECURSIVE SplitFrom(_, _, _, _, _)
SplitFrom(s, D, i, cur, acc) ==
  IF i > Len(s) THEN Append(acc, cur)
  ELSE IF s[i] \in D
       THEN (IF i > 1 /\ s[i-1] \in D THEN SplitFrom(s, D, i + 1, cur, acc)
             ELSE SplitFrom(s, D, i + 1, <<>>, Append(acc, cur)))
       ELSE SplitFrom(s, D, i + 1, Append(cur, s[i]), acc)

split(s, D) == SplitFrom(s, D, 1, <<>>, <<>>)

MaxWordLen == 50

stopWords ==
  { <<"a">>, <<"a","n">>, <<"t","h","e">>, <<"a","n","d">>, <<"o","r">>,
    <<"f","o","r">>, <<"o","f">>, <<"t","o">>, <<"i","n">>, <<"o","n">>,
    <<"w","i","t","h">>, <<"b","y">> }

KeepLength(word) == Len(word) > 0 /\ Len(word) <= MaxWordLen
NotStopWord(word) == word \notin stopWords

splitToFeatureWords(searchTerm) ==
  LET words == SelectSeq(split(toLowerCase(searchTerm), Delimiters), KeepLength)
  IN SelectSeq(words, NotStopWord)

----------------------------------------------------------------------------
(* Ingestion: parseExcelData derives acos, ctr, cvr and cpc of a row *)

Ratio100(a, b) == IF b > 0 THEN Mul(Div(I(a), I(b)), I(100)) ELSE I(0)

\* one iteration of the loop for a row whose cells are already numbers
parseRow(row) ==
  [searchTerm  |-> row.searchTerm,
   impressions |-> row.impressions,
   clicks      |-> row.clicks,
   spend       |-> row.spend,
   sales       |-> row.sales,
   orders      |-> row.orders,
   acos        |-> Ratio100(row.spend, row.sales),
   ctr         |-> Ratio100(row.clicks, row.impressions),
   cvr         |-> Ratio100(row.orders, row.clicks),
   cpc         |-> IF row.clicks > 0 THEN Div(I(row.spend), I(row.clicks)) ELSE I(0),
   campaign    |-> row.campaign,
   adGroup     |-> row.adGroup]

RECURSIVE parseExcelData(_)
parseExcelData(rows) ==
  IF rows = <<>> THEN <<>>
  ELSE IF Head(rows).searchTerm = <<>> THEN parseExcelData(Tail(rows))
       ELSE <<parseRow(Head(rows))>> \o parseExcelData(Tail(rows))

----------------------------------------------------------------------------
(* Feature-word aggregation *)

\* variant: the map lives outside the function and survives the call
NewMap_Retained == IF run = << >> THEN << >> ELSE run[1].featureStats

\* new Map<string, FeatureWord>()
NewMap == << >>

\* variant: the orders of a word are those of the first record that has it
AddWord_FirstOrders(stats, word, term) ==
  IF word \in DOMAIN stats
  THEN [stats EXCEPT ![word] =
          [@ EXCEPT !.clicks = @ + term.clicks,
                    !.spend  = @ + term.spend,
                    !.sales  = @ + term.sales]]
  ELSE [w \in DOMAIN stats \cup {word} |->
          IF w = word
          THEN [word |-> word, clicks |-> term.clicks, orders |-> term.orders,
                spend |-> term.spend, sales |-> term.sales,
                conversionRate |-> I(0)]
          ELSE stats[w]]

\* one iteration of the inner loop of buildFeatureWordStats
AddWord(stats, word, term) ==
  IF word \in DOMAIN stats
  THEN [stats EXCEPT ![word] =
          [@ EXCEPT !.clicks = @ + term.clicks,
                    !.orders = @ + term.orders,
                    !.spend  = @ + term.spend,
                    !.sales  = @ + term.sales]]
  ELSE [w \in DOMAIN stats \cup {word} |->
          IF w = word
          THEN [word |-> word, clicks |-> term.clicks, orders |-> term.orders,
                spend |-> term.spend, sales |-> term.sales,
                conversionRate |-> I(0)]
          ELSE stats[w]]

RECURSIVE AddWords(_, _, _)
AddWords(stats, words, term) ==
  IF words = <<>> THEN stats
  ELSE AddWords(AddWord(stats, Head(words), term), Tail(words), term)

RECURSIVE AddTerms(_, _)
AddTerms(stats, terms) ==
  IF terms = <<>> THEN stats
  ELSE AddTerms(AddWords(stats, splitToFeatureWords(Head(terms).searchTerm), Head(terms)),
                Tail(terms))

WithConversionRate(stats) ==
  [w \in DOMAIN stats |->
     [stats[w] EXCEPT !.conversionRate = Ratio100(stats[w].orders, stats[w].clicks)]]

\* the body of buildFeatureWordStats, given the map it starts from
buildFeatureWordStatsFrom(map, terms) == WithConversionRate(AddTerms(map, terms))

buildFeatureWordStats(terms) == buildFeatureWordStatsFrom(NewMap, terms)

----------------------------------------------------------------------------
(* Per-record feature-word lookup *)

\* null / undefined word
NoWord == << >>

\* variant: a later zero-conversion word replaces the current one when it has
\* fewer clicks
MinCvrStep_FewestZero(acc, word, featureStats) ==
  IF word \notin DOMAIN featureStats THEN acc
  ELSE
    LET stats == featureStats[word]
        a1 == IF Lt(I(stats.clicks), acc.minClicks)
              THEN [acc EXCEPT !.minClicks = I(stats.clicks), !.minClicksWord = word]
              ELSE acc
        zeroClicks == IF a1.zeroCvrWord \in DOMAIN featureStats
                      THEN featureStats[a1.zeroCvrWord].clicks ELSE 0
        a2 == IF stats.clicks > 0 /\ stats.orders = 0
              THEN [a1 EXCEPT !.hasZeroCvr = TRUE,
                              !.zeroCvrWord = IF a1.zeroCvrWord = NoWord \/ stats.clicks < zeroClicks
                                              THEN word ELSE @]
              ELSE a1
    IN IF Gt(stats.conversionRate, I(0)) /\ Lt(stats.conversionRate, a2.minCvr)
       THEN [a2 EXCEPT !.minCvr = stats.conversionRate]
       ELSE a2

\* one iteration of the loop of getMinFeatureWordConversionRate
MinCvrStep(acc, word, featureStats) ==
  IF word \notin DOMAIN featureStats THEN acc
  ELSE
    LET stats == featureStats[word]
        a1 == IF Lt(I(stats.clicks), acc.minClicks)
              THEN [acc EXCEPT !.minClicks = I(stats.clicks), !.minClicksWord = word]
              ELSE acc
        zeroClicks == IF a1.zeroCvrWord \in DOMAIN featureStats
                      THEN featureStats[a1.zeroCvrWord].clicks ELSE 0
        a2 == IF stats.clicks > 0 /\ stats.orders = 0
              THEN [a1 EXCEPT !.hasZeroCvr = TRUE,
                              !.zeroCvrWord = IF a1.zeroCvrWord = NoWord \/ stats.clicks > zeroClicks
                                              THEN word ELSE @]
              ELSE a1
    IN IF Gt(stats.conversionRate, I(0)) /\ Lt(stats.conversionRate, a2.minCvr)
       THEN [a2 EXCEPT !.minCvr = stats.conversionRate]
       ELSE a2

RECURSIVE MinCvrLoop(_, _, _)
MinCvrLoop(acc, words, featureStats) ==
  IF words = <<>> THEN acc
  ELSE MinCvrLoop(MinCvrStep(acc, Head(words), featureStats), Tail(words), featureStats)

getMinFeatureWordConversionRate(searchTerm, featureStats) ==
  MinCvrLoop([minCvr |-> Infinity, hasZeroCvr |-> FALSE, zeroCvrWord |-> NoWord,
              minClicksWord |-> NoWord, minClicks |-> Infinity],
             splitToFeatureWords(searchTerm), featureStats)

----------------------------------------------------------------------------
(* Baseline *)

\* data.reduce((sum, d) => sum + d.<field>, 0)
RECURSIVE SumClicks(_)
SumClicks(terms) == IF terms = <<>> THEN 0 ELSE Head(terms).clicks + SumClicks(Tail(terms))
RECURSIVE SumOrders(_)
SumOrders(terms) == IF terms = <<>> THEN 0 ELSE Head(terms).orders + SumOrders(Tail(terms))
RECURSIVE SumSpend(_)
SumSpend(terms) == IF terms = <<>> THEN 0 ELSE Head(terms).spend + SumSpend(Tail(terms))
RECURSIVE SumSales(_)
SumSales(terms) == IF terms = <<>> THEN 0 ELSE Head(terms).sales + SumSales(Tail(terms))

MinTargetAcos == 20
MinExactNegativeClicks == 5
MinPhraseNegativeClicks == 50
MinReliabilityClicks == 5

\* variant: a zero conversion rate is guarded with a zero fallback
ClicksPerConversion_ZeroGuard(level, overallConversionRate) ==
  IF overallConversionRate = I(0) THEN I(0)
  ELSE Div(level, Div(overallConversionRate, I(100)))

\* config.<LEVEL> / (overallConversionRate / 100)
ClicksPerConversion(level, overallConversionRate) ==
  Div(level, Div(overallConversionRate, I(100)))

Baseline(terms, cfg) ==
  LET totalSpend  == SumSpend(terms)
      totalSales  == SumSales(terms)
      totalOrders == SumOrders(terms)
      totalClicks == SumClicks(terms)
      overallAcos == Ratio100(totalSpend, totalSales)
      overallConversionRate == Ratio100(totalOrders, totalClicks)
  IN [totalSpend  |-> totalSpend,
      totalSales  |-> totalSales,
      totalOrders |-> totalOrders,
      totalClicks |-> totalClicks,
      overallAcos |-> overallAcos,
      overallConversionRate |-> overallConversionRate,
      averageCpc |-> IF totalClicks > 0 THEN Div(I(totalSpend), I(totalClicks)) ELSE I(0),
      averageOrderValue |-> IF totalOrders > 0 THEN Div(I(totalSales), I(totalOrders)) ELSE I(0),
      targetAcos |-> MathMax(I(MinTargetAcos), Div(overallAcos, cfg.TARGET_ACOS_INDEX)),
      exactNegativeClickThreshold |->
        MathMax(I(MinExactNegativeClicks), MathCeil(ClicksPerConversion(cfg.EXACT_NEGATIVE_LV, overallConversionRate))),
      phraseNegativeClickThreshold |->
        MathMax(I(MinPhraseNegativeClicks), MathCeil(ClicksPerConversion(cfg.PHRASE_NEGATIVE_LV, overallConversionRate))),
      reliabilityClickThreshold |->
        MathMax(I(MinReliabilityClicks), ClicksPerConversion(cfg.RELIABILITY, overallConversionRate))]

----------------------------------------------------------------------------
(* Record classifier: the body of the loop of analyzeSearchTerms.  The      *)
(* rationale text is modelled by the name of its template; `counter' is the *)
(* counter the branch increments.                                           *)

\* absent optional number
Undefined == << >>
Some(x) == <<x>>

Verdict(suggestion, action, confidence, estimatedAcos, problemKeyword, counter) ==
  [suggestion |-> suggestion, suggestedAction |-> action, confidence |-> confidence,
   estimatedAcos |-> estimatedAcos, problemKeyword |-> problemKeyword,
   counter |-> counter]

DefaultConfidence == Rat(3, 10)

\* variant: the exact-negative branch forgets negativeCount++
NegativeBranch_NoCount(fw, base, featureStats) ==
  IF fw.zeroCvrWord \notin DOMAIN featureStats
  THEN Verdict("Pending", "insufficient_data", DefaultConfidence, Undefined, NoWord, "none")
  ELSE
    LET zeroCvrStats == featureStats[fw.zeroCvrWord]
    IN IF Ge(I(zeroCvrStats.clicks), base.phraseNegativeClickThreshold)
       THEN Verdict("Phrase_Negative", "word_phrase_negative", Rat(8, 10),
                    Undefined, fw.zeroCvrWord, "negativeCount")
       ELSE IF Ge(I(zeroCvrStats.clicks), base.exactNegativeClickThreshold)
       THEN Verdict("Exact_Negative", "word_exact_negative", Rat(7, 10),
                    Undefined, fw.zeroCvrWord, "none")
       ELSE Verdict("Pending", "word_clicks_too_few_to_negate", DefaultConfidence,
                    Undefined, fw.zeroCvrWord, "pendingCount")

\* Priority 1: a feature word with clicks and no orders
NegativeBranch(fw, base, featureStats) ==
  IF fw.zeroCvrWord \notin DOMAIN featureStats
  THEN Verdict("Pending", "insufficient_data", DefaultConfidence, Undefined, NoWord, "none")
  ELSE
    LET zeroCvrStats == featureStats[fw.zeroCvrWord]
    IN IF Ge(I(zeroCvrStats.clicks), base.phraseNegativeClickThreshold)
       THEN Verdict("Phrase_Negative", "word_phrase_negative", Rat(8, 10),
                    Undefined, fw.zeroCvrWord, "negativeCount")
       ELSE IF Ge(I(zeroCvrStats.clicks), base.exactNegativeClickThreshold)
       THEN Verdict("Exact_Negative", "word_exact_negative", Rat(7, 10),
                    Undefined, fw.zeroCvrWord, "negativeCount")
       ELSE Verdict("Pending", "word_clicks_too_few_to_negate", DefaultConfidence,
                    Undefined, fw.zeroCvrWord, "pendingCount")

\* variant: the two bid branches increment each other's counter
OwnAcosBranch_SwappedCounters(term, cfg, base) ==
  LET currentAcos == term.acos
      bidConfidence == MathMin(Rat(99, 100), Add(Rat(5, 10), Mul(I(term.orders), Rat(5, 100))))
  IN IF Lt(currentAcos, Mul(base.targetAcos, cfg.INCREASE_BID_LV))
     THEN Verdict("Increase_Bid", "acos_below_target", bidConfidence,
                  Some(currentAcos), NoWord, "decreaseBidCount")
     ELSE IF Gt(currentAcos, Mul(base.targetAcos, cfg.DECREASE_BID_LV))
     THEN Verdict("Decrease_Bid", "acos_above_target", bidConfidence,
                  Some(currentAcos), NoWord, "increaseBidCount")
     ELSE Verdict("Reasonable", "acos_in_range",
                  MathMin(Rat(85, 100), Add(Rat(4, 10), Mul(I(term.orders), Rat(5, 100)))),
                  Some(currentAcos), NoWord, "reasonableCount")

\* variant: the confidence of a record with orders is not capped
OwnAcosBranch_Uncapped(term, cfg, base) ==
  LET currentAcos == term.acos
      bidConfidence == Add(Rat(5, 10), Mul(I(term.orders), Rat(5, 100)))
  IN IF Lt(currentAcos, Mul(base.targetAcos, cfg.INCREASE_BID_LV))
     THEN Verdict("Increase_Bid", "acos_below_target", bidConfidence,
                  Some(currentAcos), NoWord, "increaseBidCount")
     ELSE IF Gt(currentAcos, Mul(base.targetAcos, cfg.DECREASE_BID_LV))
     THEN Verdict("Decrease_Bid", "acos_above_target", bidConfidence,
                  Some(currentAcos), NoWord, "decreaseBidCount")
     ELSE Verdict("Reasonable", "acos_in_range",
                  Add(Rat(4, 10), Mul(I(term.orders), Rat(5, 100))),
                  Some(currentAcos), NoWord, "reasonableCount")

\* variant: the band tests include the bounds
OwnAcosBranch_Inclusive(term, cfg, base) ==
  LET currentAcos == term.acos
      bidConfidence == MathMin(Rat(99, 100), Add(Rat(5, 10), Mul(I(term.orders), Rat(5, 100))))
  IN IF Ge(Mul(base.targetAcos, cfg.INCREASE_BID_LV), currentAcos)
     THEN Verdict("Increase_Bid", "acos_below_target", bidConfidence,
                  Some(currentAcos), NoWord, "increaseBidCount")
     ELSE IF Ge(currentAcos, Mul(base.targetAcos, cfg.DECREASE_BID_LV))
     THEN Verdict("Decrease_Bid", "acos_above_target", bidConfidence,
                  Some(currentAcos), NoWord, "decreaseBidCount")
     ELSE Verdict("Reasonable", "acos_in_range",
                  MathMin(Rat(85, 100), Add(Rat(4, 10), Mul(I(term.orders), Rat(5, 100)))),
                  Some(currentAcos), NoWord, "reasonableCount")

\* Priority 2: the record has orders, its own ACOS decides
OwnAcosBranch(term, cfg, base) ==
  LET currentAcos == term.acos
      bidConfidence == MathMin(Rat(99, 100), Add(Rat(5, 10), Mul(I(term.orders), Rat(5, 100))))
  IN IF Lt(currentAcos, Mul(base.targetAcos, cfg.INCREASE_BID_LV))
     THEN Verdict("Increase_Bid", "acos_below_target", bidConfidence,
                  Some(currentAcos), NoWord, "increaseBidCount")
     ELSE IF Gt(currentAcos, Mul(base.targetAcos, cfg.DECREASE_BID_LV))
     THEN Verdict("Decrease_Bid", "acos_above_target", bidConfidence,
                  Some(currentAcos), NoWord, "decreaseBidCount")
     ELSE Verdict("Reasonable", "acos_in_range",
                  MathMin(Rat(85, 100), Add(Rat(4, 10), Mul(I(term.orders), Rat(5, 100)))),
                  Some(currentAcos), NoWord, "reasonableCount")

\* variant: the estimate is left as a ratio instead of a percentage
EstimateBranch_Ratio(term, cfg, base, fw) ==
  LET estimatedCvr == Div(fw.minCvr, I(100))
      estimatedSalesPerClick == Mul(estimatedCvr, base.averageOrderValue)
      estimatedAcos == IF Gt(estimatedSalesPerClick, I(0))
                       THEN Div(term.cpc, estimatedSalesPerClick)
                       ELSE Infinity
  IN IF Lt(fw.minClicks, base.reliabilityClickThreshold)
     THEN Verdict("Pending", "word_clicks_unreliable", DefaultConfidence,
                  Some(estimatedAcos), fw.minClicksWord, "pendingCount")
     ELSE IF Lt(estimatedAcos, Mul(base.targetAcos, cfg.INCREASE_BID_LV))
     THEN Verdict("Increase_Bid", "estimate_below_target", Rat(6, 10),
                  Some(estimatedAcos), NoWord, "increaseBidCount")
     ELSE IF Gt(estimatedAcos, Mul(base.targetAcos, cfg.DECREASE_BID_LV))
     THEN Verdict("Decrease_Bid", "estimate_above_target", Rat(6, 10),
                  Some(estimatedAcos), NoWord, "decreaseBidCount")
     ELSE Verdict("Reasonable", "estimate_in_range", Rat(5, 10),
                  Some(estimatedAcos), NoWord, "reasonableCount")

\* variant: a word with exactly the threshold number of clicks is unreliable
EstimateBranch_StrictReliability(term, cfg, base, fw) ==
  LET estimatedCvr == Div(fw.minCvr, I(100))
      estimatedSalesPerClick == Mul(estimatedCvr, base.averageOrderValue)
      estimatedAcos == IF Gt(estimatedSalesPerClick, I(0))
                       THEN Mul(Div(term.cpc, estimatedSalesPerClick), I(100))
                       ELSE Infinity
  IN IF Ge(base.reliabilityClickThreshold, fw.minClicks)
     THEN Verdict("Pending", "word_clicks_unreliable", DefaultConfidence,
                  Some(estimatedAcos), fw.minClicksWord, "pendingCount")
     ELSE IF Lt(estimatedAcos, Mul(base.targetAcos, cfg.INCREASE_BID_LV))
     THEN Verdict("Increase_Bid", "estimate_below_target", Rat(6, 10),
                  Some(estimatedAcos), NoWord, "increaseBidCount")
     ELSE IF Gt(estimatedAcos, Mul(base.targetAcos, cfg.DECREASE_BID_LV))
     THEN Verdict("Decrease_Bid", "estimate_above_target", Rat(6, 10),
                  Some(estimatedAcos), NoWord, "decreaseBidCount")
     ELSE Verdict("Reasonable", "estimate_in_range", Rat(5, 10),
                  Some(estimatedAcos), NoWord, "reasonableCount")

\* Priority 3: no orders, but the feature words convert
EstimateBranch(term, cfg, base, fw) ==
  LET estimatedCvr == Div(fw.minCvr, I(100))
      estimatedSalesPerClick == Mul(estimatedCvr, base.averageOrderValue)
      estimatedAcos == IF Gt(estimatedSalesPerClick, I(0))
                       THEN Mul(Div(term.cpc, estimatedSalesPerClick), I(100))
                       ELSE Infinity
  IN IF Lt(fw.minClicks, base.reliabilityClickThreshold)
     THEN Verdict("Pending", "word_clicks_unreliable", DefaultConfidence,
                  Some(estimatedAcos), fw.minClicksWord, "pendingCount")
     ELSE IF Lt(estimatedAcos, Mul(base.targetAcos, cfg.INCREASE_BID_LV))
     THEN Verdict("Increase_Bid", "estimate_below_target", Rat(6, 10),
                  Some(estimatedAcos), NoWord, "increaseBidCount")
     ELSE IF Gt(estimatedAcos, Mul(base.targetAcos, cfg.DECREASE_BID_LV))
     THEN Verdict("Decrease_Bid", "estimate_above_target", Rat(6, 10),
                  Some(estimatedAcos), NoWord, "decreaseBidCount")
     ELSE Verdict("Reasonable", "estimate_in_range", Rat(5, 10),
                  Some(estimatedAcos), NoWord, "reasonableCount")

HasFeatureCvr(fw) == Lt(fw.minCvr, Infinity) /\ Gt(fw.minCvr, I(0))

\* variant: a record with sales is judged on its own ACOS before negation
Classify_BidFirst(term, cfg, base, featureStats) ==
  LET fw == getMinFeatureWordConversionRate(term.searchTerm, featureStats)
  IN IF term.orders > 0 \/ term.sales > 0
     THEN OwnAcosBranch(term, cfg, base)
     ELSE IF fw.hasZeroCvr /\ fw.zeroCvrWord # NoWord
     THEN NegativeBranch(fw, base, featureStats)
     ELSE IF HasFeatureCvr(fw) /\ term.clicks > 0 /\ Gt(term.cpc, I(0))
     THEN EstimateBranch(term, cfg, base, fw)
     ELSE Verdict("Pending", "insufficient_data", DefaultConfidence,
                  Undefined, NoWord, "pendingCount")

\* variant: step 3 does not require the record to have clicks and a cpc
Classify_EstimateWithoutClicks(term, cfg, base, featureStats) ==
  LET fw == getMinFeatureWordConversionRate(term.searchTerm, featureStats)
  IN IF fw.hasZeroCvr /\ fw.zeroCvrWord # NoWord
     THEN NegativeBranch(fw, base, featureStats)
     ELSE IF term.orders > 0
     THEN OwnAcosBranch(term, cfg, base)
     ELSE IF HasFeatureCvr(fw)
     THEN EstimateBranch(term, cfg, base, fw)
     ELSE Verdict("Pending", "insufficient_data", DefaultConfidence,
                  Undefined, NoWord, "pendingCount")

\* the loop body: the cascade of five priorities
Classify(term, cfg, base, featureStats) ==
  LET fw == getMinFeatureWordConversionRate(term.searchTerm, featureStats)
  IN IF fw.hasZeroCvr /\ fw.zeroCvrWord # NoWord
     THEN NegativeBranch(fw, base, featureStats)
     ELSE IF term.orders > 0
     THEN OwnAcosBranch(term, cfg, base)
     ELSE IF HasFeatureCvr(fw) /\ term.clicks > 0 /\ Gt(term.cpc, I(0))
     THEN EstimateBranch(term, cfg, base, fw)
     ELSE IF term.clicks = 0 \/ term.spend = 0
     THEN (IF HasFeatureCvr(fw)
           THEN Verdict("Pending", "words_convert_term_has_no_clicks", DefaultConfidence,
                        Undefined, NoWord, "pendingCount")
           ELSE Verdict("Pending", "no_click_or_spend_data", DefaultConfidence,
                        Undefined, NoWord, "pendingCount"))
     ELSE Verdict("Pending", "insufficient_data", DefaultConfidence,
                  Undefined, NoWord, "pendingCount")

\* variant: ctr and cvr are copied into each other's field
ResultOf_SwappedRates(term, v) ==
  [searchTerm  |-> term.searchTerm,
   impressions |-> term.impressions,
   clicks      |-> term.clicks,
   spend       |-> term.spend,
   sales       |-> term.sales,
   orders      |-> term.orders,
   acos        |-> term.acos,
   ctr         |-> term.cvr,
   cvr         |-> term.ctr,
   cpc         |-> term.cpc,
   suggestion  |-> v.suggestion,
   suggestedAction |-> v.suggestedAction,
   confidence  |-> v.confidence,
   estimatedAcos  |-> v.estimatedAcos,
   problemKeyword |-> v.problemKeyword,
   campaign    |-> term.campaign,
   adGroup     |-> term.adGroup]

\* results.push({...})
ResultOf(term, v) ==
  [searchTerm  |-> term.searchTerm,
   impressions |-> term.impressions,
   clicks      |-> term.clicks,
   spend       |-> term.spend,
   sales       |-> term.sales,
   orders      |-> term.orders,
   acos        |-> term.acos,
   ctr         |-> term.ctr,
   cvr         |-> term.cvr,
   cpc         |-> term.cpc,
   suggestion  |-> v.suggestion,
   suggestedAction |-> v.suggestedAction,
   confidence  |-> v.confidence,
   estimatedAcos  |-> v.estimatedAcos,
   problemKeyword |-> v.problemKeyword,
   campaign    |-> term.campaign,
   adGroup     |-> term.adGroup]

CounterNames ==
  {"increaseBidCount", "decreaseBidCount", "negativeCount", "reasonableCount", "pendingCount"}

\* the for-loop over data: state is the result list and the five counters
RECURSIVE ClassifyLoop(_, _, _, _, _)
ClassifyLoop(acc, terms, cfg, base, featureStats) ==
  IF terms = <<>> THEN acc
  ELSE
    LET term == Head(terms)
        v == Classify(term, cfg, base, featureStats)
    IN ClassifyLoop(
         [results  |-> Append(acc.results, ResultOf(term, v)),
          counters |-> [c \in CounterNames |->
                          IF c = v.counter THEN acc.counters[c] + 1 ELSE acc.counters[c]]],
         Tail(terms), cfg, base, featureStats)

\* the loop and the returned object, given the baseline and the feature-word map
Summarize(terms, cfg, base, featureStats) ==
  LET out == ClassifyLoop([results |-> <<>>, counters |-> [c \in CounterNames |-> 0]],
                          terms, cfg, base, featureStats)
  IN [totalKeywords     |-> Len(terms),
      increaseBidCount  |-> out.counters["increaseBidCount"],
      decreaseBidCount  |-> out.counters["decreaseBidCount"],
      negativeCount     |-> out.counters["negativeCount"],
      reasonableCount   |-> out.counters["reasonableCount"],
      pendingCount      |-> out.counters["pendingCount"],
      overallAcos       |-> base.overallAcos,
      overallConversionRate |-> base.overallConversionRate,
      averageCpc        |-> base.averageCpc,
      averageOrderValue |-> base.averageOrderValue,
      totalSpend        |-> base.totalSpend,
      totalSales        |-> base.totalSales,
      totalOrders       |-> base.totalOrders,
      results           |-> out.results]

\* variant: the feature-word aggregates leave out the last record of the batch
analyzeSearchTerms_WithoutLast(terms, cfg) ==
  Summarize(terms, cfg, Baseline(terms, cfg),
            buildFeatureWordStats(SubSeq(terms, 1, Len(terms) - 1)))

analyzeSearchTerms(terms, cfg) ==
  Summarize(terms, cfg, Baseline(terms, cfg), buildFeatureWordStats(terms))

----------------------------------------------------------------------------
(* Tokenizer of featureWordAnalyzer.ts.  Its argument is optional: Undefined *)
(* is null, Some(s) the string s.                                           *)

\* the character class of the split pattern
FWA_Delimiters ==
  {" ", "\t", "-", "_", ",", ".", "/", "\\", "|", "&", "+", "(", ")", "[", "]",
   "{", "}", "'", "\"", "!", "?", ";", ":"}

Digits == {"0", "1", "2", "3", "4", "5", "6", "7", "8", "9"}

FWA_stopWords ==
  { <<"a">>, <<"a","n">>, <<"t","h","e">>, <<"a","n","d">>, <<"o","r">>,
    <<"f","o","r">>, <<"o","f">>, <<"t","o">>, <<"i","n">>, <<"o","n">>,
    <<"w","i","t","h">>, <<"b","y">>, <<"a","t">>, <<"f","r","o","m">>,
    <<"a","s">>, <<"i","s">>, <<"i","t">>, <<"b","e">>, <<"a","r","e">>,
    <<"w","a","s">>, <<"w","e","r","e">>, <<"b","e","e","n">>,
    <<"b","e","i","n","g">>, <<"h","a","v","e">>, <<"h","a","s">>,
    <<"h","a","d">>, <<"d","o">>, <<"d","o","e","s">>, <<"d","i","d">>,
    <<"w","i","l","l">>, <<"w","o","u","l","d">>, <<"c","o","u","l","d">>,
    <<"s","h","o","u","l","d">>, <<"m","a","y">>, <<"m","i","g","h","t">>,
    <<"m","u","s","t">>, <<"c","a","n">>, <<"t","h","i","s">>,
    <<"t","h","a","t">>, <<"t","h","e","s","e">>, <<"t","h","o","s","e">>,
    <<"a","m">>, <<"n","o","t">> }

\* variant: one-character words are kept
FWA_KeepLength_NonEmpty(word) == Len(word) > 0 /\ Len(word) <= MaxWordLen

\* word.length > 1 && word.length <= 50
FWA_KeepLength(word) == Len(word) > 1 /\ Len(word) <= MaxWordLen

\* !/^\d+$/.test(word)
NotPureNumber(word) == ~(Len(word) > 0 /\ \A i \in 1..Len(word) : word[i] \in Digits)

FWA_NotStopWord(word) == word \notin FWA_stopWords

FWA_splitToFeatureWords(t) ==
  IF t = Undefined \/ t[1] = << >> THEN << >>
  ELSE LET pieces == split(toLowerCase(t[1]), FWA_Delimiters)
           kept == SelectSeq(SelectSeq(pieces, FWA_KeepLength), NotPureNumber)
       IN SelectSeq(kept, FWA_NotStopWord)

----------------------------------------------------------------------------
(* Feature-word analysis of featureWordAnalyzer.ts.  The Map is modelled as *)
(* the sequence of its entries in insertion order, which is the order in    *)
(* which forEach visits them.  An optional field of a SearchTermInput is    *)
(* Undefined or Some(number).  analyzedAt (the clock) is left out.          *)

\* term.<field> || 0
OrZero(x) == IF x = Undefined THEN 0 ELSE x[1]

\* the index of the entry of a word, 0 if there is none: featureWordMap.get(word)
IndexOfWord(entries, word) ==
  IF \E i \in DOMAIN entries : entries[i].word = word
  THEN CHOOSE i \in DOMAIN entries : entries[i].word = word
  ELSE 0

\* the body of the inner loop of analyzeFeatureWords
FWA_AddWord(entries, word, term) ==
  LET i == IndexOfWord(entries, word)
  IN IF i # 0
     THEN [entries EXCEPT ![i] =
             [@ EXCEPT !.count = @ + 1,
                       !.totalClicks = @ + OrZero(term.clicks),
                       !.totalOrders = @ + OrZero(term.orders),
                       !.totalSpend  = @ + OrZero(term.spend),
                       !.totalSales  = @ + OrZero(term.sales),
                       !.totalImpressions = @ + OrZero(term.impressions)]]
     ELSE Append(entries,
                 [word |-> word, count |-> 1,
                  totalClicks |-> OrZero(term.clicks),
                  totalOrders |-> OrZero(term.orders),
                  totalSpend  |-> OrZero(term.spend),
                  totalSales  |-> OrZero(term.sales),
                  totalImpressions |-> OrZero(term.impressions),
                  conversionRate |-> I(0), acos |-> I(0), avgCpc |-> I(0)])

RECURSIVE FWA_AddWords(_, _, _)
FWA_AddWords(entries, ws, term) ==
  IF ws = << >> THEN entries
  ELSE FWA_AddWords(FWA_AddWord(entries, Head(ws), term), Tail(ws), term)

RECURSIVE FWA_AddTerms(_, _)
FWA_AddTerms(entries, ts) ==
  IF ts = << >> THEN entries
  ELSE FWA_AddTerms(
         FWA_AddWords(entries, FWA_splitToFeatureWords(Some(Head(ts).searchTerm)), Head(ts)),
         Tail(ts))

\* the body of featureWordMap.forEach
WithDerivedMetrics(d) ==
  [d EXCEPT
     !.conversionRate = IF d.totalClicks > 0
                        THEN Mul(Div(I(d.totalOrders), I(d.totalClicks)), I(100)) ELSE I(0),
     !.acos = IF d.totalSales > 0
              THEN Mul(Div(I(d.totalSpend), I(d.totalSales)), I(100)) ELSE I(0),
     !.avgCpc = IF d.totalClicks > 0
                THEN Div(I(d.totalSpend), I(d.totalClicks)) ELSE I(0)]

\* Array.prototype.sort is stable: an element goes behind the elements that
\* the comparator does not put after it
InsertByTotalClicksDescending(sorted, x) ==
  LET k == Cardinality({i \in DOMAIN sorted : sorted[i].totalClicks >= x.totalClicks})
  IN SubSeq(sorted, 1, k) \o <<x>> \o SubSeq(sorted, k + 1, Len(sorted))

\* xs.sort((a, b) => b.totalClicks - a.totalClicks)
RECURSIVE SortByTotalClicksDescending(_)
SortByTotalClicksDescending(xs) ==
  IF xs = << >> THEN << >>
  ELSE InsertByTotalClicksDescending(
         SortByTotalClicksDescending(SubSeq(xs, 1, Len(xs) - 1)), xs[Len(xs)])

InsertByAcosAscending(sorted, x) ==
  LET k == Cardinality({i \in DOMAIN sorted : ~Gt(sorted[i].acos, x.acos)})
  IN SubSeq(sorted, 1, k) \o <<x>> \o SubSeq(sorted, k + 1, Len(sorted))

\* xs.sort((a, b) => a.acos - b.acos)
RECURSIVE SortByAcosAscending(_)
SortByAcosAscending(xs) ==
  IF xs = << >> THEN << >>
  ELSE InsertByAcosAscending(SortByAcosAscending(SubSeq(xs, 1, Len(xs) - 1)), xs[Len(xs)])

analyzeFeatureWords(ts) ==
  LET entries == FWA_AddTerms(<< >>, ts)
      featureWords == SortByTotalClicksDescending(
                        [i \in DOMAIN entries |-> WithDerivedMetrics(entries[i])])
  IN [totalSearchTerms  |-> Len(ts),
      totalFeatureWords |-> Len(featureWords),
      featureWords      |-> featureWords]

\* The two selections.  filter builds a new array and sort orders that array in
\* place; `returned' is the array handed back and `featureWords' the array
\* analysisResult.featureWords as the call leaves it.

IsHighPerformer(fw, minClicks, maxAcos) ==
  /\ fw.totalClicks >= minClicks
  /\ fw.totalOrders > 0
  /\ Gt(fw.acos, I(0))
  /\ ~Gt(fw.acos, maxAcos) /\ ~IsNaN(fw.acos) /\ ~IsNaN(maxAcos)

\* variant: the array of the analysis is sorted in place, then filtered
getHighPerformingFeatureWords_SortInPlace(analysisResult, minClicks, maxAcos) ==
  LET sorted == SortByAcosAscending(analysisResult.featureWords)
      Keep(fw) == IsHighPerformer(fw, minClicks, maxAcos)
  IN [returned |-> SelectSeq(sorted, Keep), featureWords |-> sorted]

getHighPerformingFeatureWords(analysisResult, minClicks, maxAcos) ==
  LET Keep(fw) == IsHighPerformer(fw, minClicks, maxAcos)
  IN [returned     |-> SortByAcosAscending(SelectSeq(analysisResult.featureWords, Keep)),
      featureWords |-> analysisResult.featureWords]

\* variant: words with orders but no sales count as problem words
getProblemFeatureWords_NoSales(analysisResult, minClicks) ==
  LET Keep(fw) == fw.totalClicks >= minClicks /\ fw.totalSales = 0
  IN [returned     |-> SortByTotalClicksDescending(SelectSeq(analysisResult.featureWords, Keep)),
      featureWords |-> analysisResult.featureWords]

getProblemFeatureWords(analysisResult, minClicks) ==
  LET Keep(fw) == fw.totalClicks >= minClicks /\ fw.totalOrders = 0
  IN [returned     |-> SortByTotalClicksDescending(SelectSeq(analysisResult.featureWords, Keep)),
      featureWords |-> analysisResult.featureWords]

----------------------------------------------------------------------------
(* Keyword suggestions from search terms (keywordExpander.ts).  The reason  *)
(* text is modelled by the name of its template.                            *)

\* Math.round: the nearest integer, a half rounding up
MathRound(x) == IF IsFinite(x) THEN I((2 * x.n + x.d) \div (2 * x.d)) ELSE x

\* a - b
Sub(a, b) == Add(a, Mul(I(-1), b))

\* .slice(0, 20)
MaxSuggestions == 20

\* variant: a term whose ACOS equals the target is a high performer
IsHighPerformingTerm_Inclusive(t, target) ==
  t.orders > 0 /\ ~Gt(t.acos, target) /\ ~IsNaN(t.acos) /\ ~IsNaN(target) /\ Gt(t.acos, I(0))

\* t.orders > 0 && t.acos < targetAcos && t.acos > 0
IsHighPerformingTerm(t, target) ==
  t.orders > 0 /\ Lt(t.acos, target) /\ Gt(t.acos, I(0))

\* variant: the share of the target that is spent, instead of the share saved
Relevance_ShareSpent(acos, target) ==
  MathMin(I(100), MathRound(Mul(Div(acos, target), I(100))))

\* Math.min(100, Math.round((1 - term.acos / targetAcos) * 100))
Relevance(acos, target) ==
  MathMin(I(100), MathRound(Mul(Sub(I(1), Div(acos, target)), I(100))))

SearchVolume(clicks) ==
  IF clicks > 100 THEN "high" ELSE IF clicks > 30 THEN "medium" ELSE "low"

\* the body of highPerformers.map
SuggestionOf(t, target) ==
  [keyword      |-> t.term,
   type         |-> "exact",
   relevance    |-> Relevance(t.acos, target),
   searchVolume |-> SearchVolume(t.clicks),
   competition  |-> "unknown",
   reason       |-> "acos_orders_excellent"]

suggestFromSearchTerms(ts, target) ==
  LET Keep(t) == IsHighPerformingTerm(t, target)
      sorted == SortByAcosAscending(SelectSeq(ts, Keep))
      highPerformingTerms ==
        SubSeq(sorted, 1, IF Len(sorted) < MaxSuggestions THEN Len(sorted) ELSE MaxSuggestions)
  IN [i \in DOMAIN highPerformingTerms |-> SuggestionOf(highPerformingTerms[i], target)]

----------------------------------------------------------------------------
(* Inputs *)

\* the default configuration object
CONFIG ==
  [TARGET_ACOS_INDEX  |-> Rat(10, 10),
   EXACT_NEGATIVE_LV  |-> Rat(10, 10),
   PHRASE_NEGATIVE_LV |-> Rat(50, 10),
   RELIABILITY        |-> Rat(10, 10),
   INCREASE_BID_LV    |-> Rat(7, 10),
   DECREASE_BID_LV    |-> Rat(14, 10)]

\* an aggressive target with a wide band, inside the documented ranges
WideBandConfig ==
  [CONFIG EXCEPT !.TARGET_ACOS_INDEX = Rat(20, 10), !.EXACT_NEGATIVE_LV = Rat(5, 10),
                 !.DECREASE_BID_LV = Rat(20, 10)]

\* a demanding reliability level, inside the documented ranges
StrictReliabilityConfig == [CONFIG EXCEPT !.RELIABILITY = Rat(100, 10)]

\* a configuration outside the documented ranges: zero index and levels
ZeroConfig ==
  [CONFIG EXCEPT !.TARGET_ACOS_INDEX = I(0), !.EXACT_NEGATIVE_LV = I(0),
                 !.PHRASE_NEGATIVE_LV = I(0), !.RELIABILITY = I(0)]

Configs == {CONFIG, WideBandConfig, StrictReliabilityConfig, ZeroConfig}

IsPositiveConfig(cfg) ==
  /\ Gt(cfg.TARGET_ACOS_INDEX, I(0)) /\ Gt(cfg.EXACT_NEGATIVE_LV, I(0))
  /\ Gt(cfg.PHRASE_NEGATIVE_LV, I(0)) /\ Gt(cfg.RELIABILITY, I(0))
  /\ Gt(cfg.INCREASE_BID_LV, I(0)) /\ Gt(cfg.DECREASE_BID_LV, I(0))

Row(term, impressions, clicks, spend, sales, orders, campaign) ==
  [searchTerm |-> term, impressions |-> impressions, clicks |-> clicks, spend |-> spend,
   sales |-> sales, orders |-> orders, campaign |-> campaign, adGroup |-> "g1"]

TermAb    == <<"a", "b">>
TermCd    == <<"c", "d">>
TermAbCd  == <<"a", "b", "-", "c", "d">>
TermUpper == <<"A", "B", " ", "a", "n">>
TermStop  == <<"a">>
TermEf    == <<"e", "f">>
TermAbAb  == <<"a", "b", " ", "a", "b">>

RowAbLightNoOrder == Row(TermAb, 100, 10, 5, 0, 0, "c1")
RowAbConverting   == Row(TermAb, 1000, 25, 5, 100, 1, "c2")
RowAbSalesNoOrder == Row(TermAb, 1000, 50, 5, 100, 0, "c2")
RowCdConverting   == Row(TermCd, 1000, 25, 14, 100, 1, "c1")
RowCdExpensive    == Row(TermCd, 1000, 50, 300, 100, 12, "c1")
RowCdCheapNoOrder == Row(TermCd, 1000, 50, 5, 0, 0, "")
RowEfOrderNoSales == Row(TermEf, 100, 25, 5, 0, 2, "")
RowAbCdNoOrder    == Row(TermAbCd, 100, 10, 5, 0, 0, "c2")
RowAbCdConverting == Row(TermAbCd, 100, 25, 28, 100, 1, "c2")
RowUpperNoData    == Row(TermUpper, 0, 0, 0, 0, 0, "")
RowStopWordOnly   == Row(TermStop, 100, 10, 5, 0, 0, "c1")
RowEfNoOrder      == Row(TermEf, 100, 10, 5, 0, 0, "c1")
RowAbTwiceNoOrder == Row(TermAbAb, 100, 10, 5, 0, 0, "c1")

Rows ==
  {RowAbSalesNoOrder, RowCdConverting, RowCdExpensive, RowCdCheapNoOrder,
   RowEfOrderNoSales, RowAbCdNoOrder, RowAbCdConverting, RowUpperNoData,
   RowStopWordOnly, RowEfNoOrder, RowAbTwiceNoOrder}

MaxBatch == 3

SeqsUpTo(S, n) == UNION {[1..k -> S] : k \in 0..n}

\* the rows of the multi-batch specification
SessionRows == {RowAbLightNoOrder, RowAbConverting}
SessionConfigs == {CONFIG, StrictReliabilityConfig}
MaxSessionBatch == 2
MaxRuns == 2

----------------------------------------------------------------------------
(* State machine.  data/config are the arguments the caller holds, summary  *)
(* the value the last call returned, run the locals of that call (baseline  *)
(* and feature-word map), log the calls that have returned.                 *)

Returned == summary # Undefined

\* no call of the engine / the tokenizer / the feature-word analysis / the
\* suggestions has been made
EngineIdle ==
  data = << >> /\ config = CONFIG /\ summary = Undefined /\ run = Undefined /\ log = << >>
SplitIdle == text = Undefined /\ splitWords = Undefined
FeatureWordsIdle ==
  searchTerms = << >> /\ analysis = Undefined /\ highPerformers = Undefined
  /\ problemWords = Undefined
SuggestIdle == inputTerms = << >> /\ targetAcos = I(30) /\ suggestions = Undefined
IngestIdle == fileData = << >> /\ searchTermData = Undefined
ReportsIdle == reports = << >> /\ nextId = 1 /\ calls = << >>
S == summary[1]
Base == run[1].base
FeatureStats == run[1].featureStats

Init ==
  /\ data \in {parseExcelData(rows) : rows \in SeqsUpTo(Rows, MaxBatch)}
  /\ config \in Configs
  /\ summary = Undefined
  /\ run = Undefined
  /\ log = <<>>
  /\ SplitIdle /\ FeatureWordsIdle /\ SuggestIdle /\ IngestIdle /\ ReportsIdle

\* const analysisResult = analyzeSearchTerms(searchTermData)
Analyze ==
  /\ summary = Undefined
  /\ summary' = Some(analyzeSearchTerms(data, config))
  /\ run' = Some([base |-> Baseline(data, config),
                  featureStats |-> buildFeatureWordStats(data)])
  /\ log' = Append(log, [data |-> data, config |-> config, summary |-> summary'[1]])
  /\ UNCHANGED <<data, config>>
  /\ UNCHANGED <<splitVars, featureWordVars, suggestVars, ingestVars, reportVars>>

\* const searchTermData = parseExcelData(input.fileData): the next upload
Submit(rows, cfg) ==
  /\ summary # Undefined
  /\ Len(log) < MaxRuns
  /\ data' = parseExcelData(rows)
  /\ config' = cfg
  /\ summary' = Undefined
  /\ UNCHANGED <<run, log>>
  /\ UNCHANGED <<splitVars, featureWordVars, suggestVars, ingestVars, reportVars>>

Next == Analyze

Spec == Init /\ [][Next]_vars

InitSession ==
  /\ data \in {parseExcelData(rows) : rows \in SeqsUpTo(SessionRows, MaxSessionBatch)}
  /\ config \in SessionConfigs
  /\ summary = Undefined
  /\ run = Undefined
  /\ log = <<>>
  /\ SplitIdle /\ FeatureWordsIdle /\ SuggestIdle /\ IngestIdle /\ ReportsIdle

NextSession ==
  \/ Analyze
  \/ \E rows \in SeqsUpTo(SessionRows, MaxSessionBatch), cfg \in SessionConfigs : Submit(rows, cfg)

SpecSession == InitSession /\ [][NextSession]_vars

----------------------------------------------------------------------------
(* The same upload analysed a second time with its rows in another order *)

ReorderRows ==
  {RowAbSalesNoOrder, RowAbCdConverting, RowCdCheapNoOrder, RowEfOrderNoSales, RowEfNoOrder}
ReorderConfigs == {CONFIG, WideBandConfig}
MaxReorderBatch == 3

InitReorder ==
  /\ data \in {parseExcelData(rows) : rows \in SeqsUpTo(ReorderRows, MaxReorderBatch)}
  /\ config \in ReorderConfigs
  /\ summary = Undefined
  /\ run = Undefined
  /\ log = <<>>
  /\ SplitIdle /\ FeatureWordsIdle /\ SuggestIdle /\ IngestIdle /\ ReportsIdle

\* const searchTermData = parseExcelData(input.fileData), for the rows of the
\* first upload in the order order[1], order[2], ...
SubmitReordered(order) ==
  /\ summary # Undefined
  /\ Len(log) = 1
  /\ data' = [i \in 1..Len(data) |-> data[order[i]]]
  /\ summary' = Undefined
  /\ UNCHANGED <<config, run, log>>
  /\ UNCHANGED <<splitVars, featureWordVars, suggestVars, ingestVars, reportVars>>

NextReorder ==
  \/ Analyze
  \/ \E order \in Permutations(1..Len(data)) : SubmitReordered(order)

SpecReorder == InitReorder /\ [][NextReorder]_vars

----------------------------------------------------------------------------
(* The tokenizer of featureWordAnalyzer.ts called on a text *)

TextAlphabet == {"A", "a", "n", "3", "-", " ", "|"}
MaxTextLen == 3

TextSugarFree == <<"s","u","g","a","r","-","f","r","e","e"," ","v","i","t","a","m","i","n","-","c">>
TextVitaminD3 == <<"v","i","t","a","m","i","n"," ","d","3"," ","5","0","0","0"," ","i","u">>
\* a word of 50 characters; a word of 51 characters before a short one
TextLongestWord == [i \in 1..50 |-> "x"]
TextTooLongWord == [i \in 1..54 |-> IF i = 52 THEN " " ELSE "x"]

Texts ==
  {Undefined} \cup {Some(t) : t \in SeqsUpTo(TextAlphabet, MaxTextLen)}
  \cup {Some(TextSugarFree), Some(TextVitaminD3), Some(TextLongestWord),
          Some(TextTooLongWord)}

InitSplit ==
  /\ text \in Texts
  /\ splitWords = Undefined
  /\ EngineIdle /\ FeatureWordsIdle /\ SuggestIdle /\ IngestIdle /\ ReportsIdle

\* splitToFeatureWords(text)
SplitText ==
  /\ splitWords = Undefined
  /\ splitWords' = Some(FWA_splitToFeatureWords(text))
  /\ UNCHANGED <<text, engineVars, featureWordVars, suggestVars, ingestVars, reportVars>>

NextSplit == SplitText

SpecSplit == InitSplit /\ [][NextSplit]_vars

----------------------------------------------------------------------------
(* The feature-word analysis of a list of search terms and the two          *)
(* selections drawn from it (keywords.analyzeFeatureWordsDirect)            *)

SearchTermInput(term, impressions, clicks, spend, sales, orders) ==
  [searchTerm |-> term, impressions |-> impressions, clicks |-> clicks, spend |-> spend,
   sales |-> sales, orders |-> orders]

TermGh == <<"g", "h">>

InputGood       == SearchTermInput(TermAb, Some(1000), Some(100), Some(50), Some(200), Some(20))
InputBad        == SearchTermInput(TermCd, Some(1000), Some(100), Some(100), Some(50), Some(1))
InputLowClicks  == SearchTermInput(TermEf, Some(50), Some(5), Some(2), Some(20), Some(2))
InputProblem    == SearchTermInput(TermGh, Some(500), Some(50), Some(25), Some(0), Some(0))
InputBoth       == SearchTermInput(TermAbCd, Some(100), Some(10), Some(50), Some(100), Some(1))
InputTwice      == SearchTermInput(TermAbAb, Some(100), Some(10), Some(5), Some(0), Some(0))
InputClicksOnly == SearchTermInput(TermGh, Undefined, Some(60), Undefined, Undefined, Undefined)
InputNoSales    == SearchTermInput(TermEf, Some(100), Some(20), Some(10), Some(0), Some(1))

SearchTermInputs ==
  {InputGood, InputBad, InputLowClicks, InputProblem, InputBoth, InputTwice,
   InputClicksOnly, InputNoSales}

MaxSearchTerms == 3

\* arguments of the selections: the defaults and a stricter choice
MinClicksChoices == {10, 100}
MaxAcosChoices == {I(50), I(25)}

InitFeatureWords ==
  /\ searchTerms \in SeqsUpTo(SearchTermInputs, MaxSearchTerms)
  /\ analysis = Undefined
  /\ highPerformers = Undefined
  /\ problemWords = Undefined
  /\ EngineIdle /\ SplitIdle /\ SuggestIdle /\ IngestIdle /\ ReportsIdle

\* const featureWordAnalysis = analyzeFeatureWords(input.searchTerms)
AnalyzeFeatureWords ==
  /\ analysis = Undefined
  /\ analysis' = Some(analyzeFeatureWords(searchTerms))
  /\ UNCHANGED <<searchTerms, highPerformers, problemWords>>
  /\ UNCHANGED <<engineVars, splitVars, suggestVars, ingestVars, reportVars>>

\* const highPerformers = getHighPerformingFeatureWords(featureWordAnalysis, ...)
GetHighPerformers(minClicks, maxAcos) ==
  /\ analysis # Undefined
  /\ highPerformers = Undefined
  /\ LET out == getHighPerformingFeatureWords(analysis[1], minClicks, maxAcos)
     IN /\ highPerformers' = Some([minClicks |-> minClicks, maxAcos |-> maxAcos,
                                    returned |-> out.returned])
        /\ analysis' = Some([analysis[1] EXCEPT !.featureWords = out.featureWords])
  /\ UNCHANGED <<searchTerms, problemWords>>
  /\ UNCHANGED <<engineVars, splitVars, suggestVars, ingestVars, reportVars>>

\* const problemWords = getProblemFeatureWords(featureWordAnalysis, ...)
GetProblemWords(minClicks) ==
  /\ analysis # Undefined
  /\ problemWords = Undefined
  /\ LET out == getProblemFeatureWords(analysis[1], minClicks)
     IN /\ problemWords' = Some([minClicks |-> minClicks, returned |-> out.returned])
        /\ analysis' = Some([analysis[1] EXCEPT !.featureWords = out.featureWords])
  /\ UNCHANGED <<searchTerms, highPerformers>>
  /\ UNCHANGED <<engineVars, splitVars, suggestVars, ingestVars, reportVars>>

NextFeatureWords ==
  \/ AnalyzeFeatureWords
  \/ \E minClicks \in MinClicksChoices, maxAcos \in MaxAcosChoices :
       GetHighPerformers(minClicks, maxAcos)
  \/ \E minClicks \in MinClicksChoices : GetProblemWords(minClicks)

SpecFeatureWords == InitFeatureWords /\ [][NextFeatureWords]_vars

----------------------------------------------------------------------------
(* suggestFromSearchTerms called on a list of terms.  The lists are drawn   *)
(* from families long enough to exceed the 20 suggestions that are kept.    *)

MaxInputTerms == 24

\* the ACOS numerator of the k-th term of a list of n terms
AcosNumerator(order, k, n) ==
  CASE order = "ascending"  -> k
    [] order = "descending" -> n + 1 - k
    [] order = "mixed"      -> (k * 7) % 13

\* the orders of the k-th term
OrdersPattern(pattern, k) ==
  CASE pattern = "all"   -> k
    [] pattern = "gaps"  -> IF k % 11 = 0 THEN 0 ELSE k

\* a list of n terms with distinct names
TermList(n, order, scale, pattern) ==
  [k \in 1..n |->
     [term   |-> ToString(k),
      orders |-> OrdersPattern(pattern, k),
      acos   |-> Rat(AcosNumerator(order, k, n), scale),
      clicks |-> 10 * k]]

TermLists ==
  {TermList(n, order, scale, pattern) :
     n \in 0..MaxInputTerms, order \in {"ascending", "descending", "mixed"},
     scale \in {1, 10}, pattern \in {"all", "gaps"}}

\* the default target, a low one and a fractional one
TargetAcosChoices == {I(30), I(10), Rat(5, 2)}

InitSuggest ==
  /\ inputTerms \in TermLists
  /\ targetAcos \in TargetAcosChoices
  /\ suggestions = Undefined
  /\ EngineIdle /\ SplitIdle /\ FeatureWordsIdle /\ IngestIdle /\ ReportsIdle

\* const suggestions = suggestFromSearchTerms(searchTerms, input.targetAcos)
Suggest ==
  /\ suggestions = Undefined
  /\ suggestions' = Some(suggestFromSearchTerms(inputTerms, targetAcos))
  /\ UNCHANGED <<inputTerms, targetAcos>>
  /\ UNCHANGED <<engineVars, splitVars, featureWordVars, ingestVars, reportVars>>

NextSuggest == Suggest

SpecSuggest == InitSuggest /\ [][NextSuggest]_vars

----------------------------------------------------------------------------
(* Reading an uploaded row.  A cell is a string or a number; a column the   *)
(* row lacks is Undefined.  A row gives, for each field, the cells of the   *)
(* column names the code looks up, in the order of the lookup.  Numbers in  *)
(* cells are integers; strings of numeric cells hold no sign, decimal point *)
(* or exponent.                                                             *)

StringCell(s) == [type |-> "string", value |-> s]
NumberCell(k) == [type |-> "number", value |-> k]

\* whether row[column] is truthy
Truthy(cell) ==
  /\ cell # Undefined
  /\ IF cell[1].type = "string" THEN cell[1].value # << >> ELSE cell[1].value # 0

\* row[c1] || row[c2] || ... || fallback
RECURSIVE FirstTruthy(_, _)
FirstTruthy(cellsOfField, fallback) ==
  IF cellsOfField = << >> THEN fallback
  ELSE IF Truthy(Head(cellsOfField)) THEN Head(cellsOfField)[1]
  ELSE FirstTruthy(Tail(cellsOfField), fallback)

DigitChars == <<"0", "1", "2", "3", "4", "5", "6", "7", "8", "9">>

\* the decimal digits of a natural number
RECURSIVE DecimalOf(_)
DecimalOf(k) ==
  IF k < 10 THEN <<DigitChars[k + 1]>> ELSE Append(DecimalOf(k \div 10), DigitChars[(k % 10) + 1])

\* String(value)
String(value) ==
  IF value.type = "string" THEN value.value
  ELSE IF value.value < 0 THEN <<"-">> \o DecimalOf(-value.value)
  ELSE DecimalOf(value.value)

\* the characters value.replace(/[$¥,，%]/g, '') removes
CurrencyChars == {"$", ",", "%"}
NotCurrencyChar(c) == c \notin CurrencyChars

\* String.prototype.trim
RECURSIVE TrimStart(_)
TrimStart(s) == IF s # << >> /\ Head(s) = " " THEN TrimStart(Tail(s)) ELSE s
RECURSIVE TrimEnd(_)
TrimEnd(s) == IF s # << >> /\ s[Len(s)] = " " THEN TrimEnd(SubSeq(s, 1, Len(s) - 1)) ELSE s
trim(s) == TrimEnd(TrimStart(s))

DigitValue(c) == CHOOSE k \in 0..9 : DigitChars[k + 1] = c

\* parseFloat of a string without sign, point or exponent: the value of its
\* leading digits, NaN (Undefined here) when it has none
RECURSIVE LeadingDigitsValue(_, _)
LeadingDigitsValue(s, acc) ==
  IF s = << >> \/ Head(s) \notin Digits THEN acc
  ELSE LeadingDigitsValue(Tail(s), 10 * acc + DigitValue(Head(s)))

parseFloat(s) ==
  LET t == TrimStart(s)
  IN IF t = << >> \/ Head(t) \notin Digits THEN Undefined ELSE Some(LeadingDigitsValue(t, 0))

parseNumber(value) ==
  IF value.type = "number" THEN value.value
  ELSE LET cleaned == trim(SelectSeq(value.value, NotCurrencyChar))
           num == parseFloat(cleaned)
       IN IF num = Undefined THEN 0 ELSE num[1]

\* the lookups of one iteration of the loop of parseExcelData
readRow(row) ==
  [searchTerm  |-> String(FirstTruthy(row.searchTerm, StringCell(<< >>))),
   impressions |-> parseNumber(FirstTruthy(row.impressions, NumberCell(0))),
   clicks      |-> parseNumber(FirstTruthy(row.clicks, NumberCell(0))),
   spend       |-> parseNumber(FirstTruthy(row.spend, NumberCell(0))),
   sales       |-> parseNumber(FirstTruthy(row.sales, NumberCell(0))),
   orders      |-> parseNumber(FirstTruthy(row.orders, NumberCell(0))),
   campaign    |-> String(FirstTruthy(row.campaign, StringCell(<< >>))),
   adGroup     |-> String(FirstTruthy(row.adGroup, StringCell(<< >>)))]

\* the number of column names looked up for each field
ColumnCount ==
  [searchTerm |-> 4, impressions |-> 4, clicks |-> 3, spend |-> 4, sales |-> 5,
   orders |-> 6, campaign |-> 2, adGroup |-> 2]

\* a field whose k-th column holds the cell and whose other columns are absent
InColumn(field, k, cell) ==
  [i \in 1..ColumnCount[field] |-> IF i = k THEN Some(cell) ELSE Undefined]
Absent(field) == [i \in 1..ColumnCount[field] |-> Undefined]

UploadedRow(term, impressions, clicks, spend, sales, orders) ==
  [searchTerm |-> term, impressions |-> impressions, clicks |-> clicks, spend |-> spend,
   sales |-> sales, orders |-> orders, campaign |-> Absent("campaign"),
   adGroup |-> InColumn("adGroup", 2, StringCell(<<"g", "1">>))]

Num(field, k) == InColumn(field, 1, NumberCell(k))

UploadValid ==
  UploadedRow(InColumn("searchTerm", 1, StringCell(TermAb)), Num("impressions", 100),
              Num("clicks", 10), Num("spend", 5), Num("sales", 20), Num("orders", 2))
UploadNoTerm ==
  UploadedRow(Absent("searchTerm"), Num("impressions", 200), Absent("clicks"),
              Absent("spend"), Absent("sales"), Absent("orders"))
UploadEmptyTerm ==
  UploadedRow(InColumn("searchTerm", 1, StringCell(<< >>)), Num("impressions", 300),
              Num("clicks", 10), Num("spend", 5), Num("sales", 0), Num("orders", 0))
\* English column names and numbers written as text
UploadEnglishText ==
  UploadedRow(InColumn("searchTerm", 2, StringCell(TermCd)),
              InColumn("impressions", 2, StringCell(<<"1", ",", "0", "0", "0">>)),
              InColumn("clicks", 2, StringCell(<<"5", "0">>)),
              InColumn("spend", 2, StringCell(<<"$", "2", "5">>)),
              Absent("sales"),
              InColumn("orders", 2, StringCell(<<"n", "a">>)))
\* an empty first column and a term in the second
UploadEmptyThenTerm ==
  UploadedRow([InColumn("searchTerm", 2, StringCell(TermEf)) EXCEPT ![1] = Some(StringCell(<< >>))],
              Num("impressions", 0), Num("clicks", 0), Num("spend", 0), Num("sales", 0),
              Num("orders", 0))
\* a blank term
UploadBlankTerm ==
  UploadedRow(InColumn("searchTerm", 1, StringCell(<<" ">>)), Num("impressions", 100),
              Num("clicks", 10), Num("spend", 5), Num("sales", 0), Num("orders", 0))
\* search terms the spreadsheet reader returns as numbers
UploadNumberTerm ==
  UploadedRow(InColumn("searchTerm", 1, NumberCell(15)), Num("impressions", 100),
              Num("clicks", 10), Num("spend", 5), Num("sales", 20), Num("orders", 1))
UploadZeroTerm ==
  UploadedRow(InColumn("searchTerm", 1, NumberCell(0)), Num("impressions", 100),
              Num("clicks", 10), Num("spend", 5), Num("sales", 20), Num("orders", 1))

UploadedRows ==
  {UploadValid, UploadNoTerm, UploadEmptyTerm, UploadEnglishText, UploadEmptyThenTerm,
   UploadBlankTerm, UploadNumberTerm, UploadZeroTerm}

MaxFileRows == 3

InitIngest ==
  /\ fileData \in SeqsUpTo(UploadedRows, MaxFileRows)
  /\ searchTermData = Undefined
  /\ EngineIdle /\ SplitIdle /\ FeatureWordsIdle /\ SuggestIdle /\ ReportsIdle

\* const searchTermData = parseExcelData(input.fileData)
ParseFile ==
  /\ searchTermData = Undefined
  /\ searchTermData' = Some(parseExcelData([i \in 1..Len(fileData) |-> readRow(fileData[i])]))
  /\ UNCHANGED <<fileData, engineVars, splitVars, featureWordVars, suggestVars, reportVars>>

NextIngest == ParseFile

SpecIngest == InitIngest /\ [][NextIngest]_vars

----------------------------------------------------------------------------
(* The analysis router (routers.ts) over the analysis_reports table (db.ts). *)
(* A handler runs up to its next await in one step.  Each statement sent to  *)
(* the database either executes or is rejected without effect; a rejected   *)
(* statement throws.  Every user has at most one call in flight; the record  *)
(* of an ended call is kept until the user's next call.  Of a report row the *)
(* model keeps id, userId, status, the six counters and errorMessage.        *)
(* A process without DATABASE_URL (getDb returns null) never stores a report  *)
(* and is left out; analysis.list changes nothing and is left out as well.   *)

Users == {1, 2}
MaxReports == 1

CounterFields ==
  {"totalKeywords", "increaseBidCount", "decreaseBidCount", "negativeCount",
   "reasonableCount", "pendingCount"}

\* the column defaults of the table for the columns an insert leaves out
ColumnDefaults ==
  [totalKeywords |-> 0, increaseBidCount |-> 0, decreaseBidCount |-> 0,
   negativeCount |-> 0, reasonableCount |-> 0, pendingCount |-> 0,
   errorMessage |-> Undefined]

\* .set(updates) / .values(report): the given columns replace the row's
Assign(row, updates) ==
  [f \in DOMAIN row |-> IF f \in DOMAIN updates THEN updates[f] ELSE row[f]]

\* db.insert(analysisReports).values(report); the new row has the given id
createAnalysisReport(table, id, report) ==
  [i \in DOMAIN table \cup {id} |->
     IF i = id THEN Assign([id |-> id, userId |-> 0, status |-> "pending"] @@ ColumnDefaults,
                           report)
     ELSE table[i]]

\* result.length > 0 ? result[0] : undefined
getAnalysisReportById(table, id) ==
  IF id \in DOMAIN table THEN Some(table[id]) ELSE Undefined

\* db.update(analysisReports).set(updates).where(eq(analysisReports.id, id))
updateAnalysisReport(table, id, updates) ==
  [i \in DOMAIN table |-> IF i = id THEN Assign(table[i], updates) ELSE table[i]]

\* db.delete(analysisReports).where(eq(analysisReports.id, id))
deleteAnalysisReport(table, id) == [i \in DOMAIN table \ {id} |-> table[i]]

ReportNotFound == "Report not found"
StatementRejected == "statement rejected"

\* the files a user uploads
Uploads == {<<UploadValid>>, <<UploadEnglishText, UploadNoTerm, UploadNumberTerm>>}

\* parseExcelData(input.fileData) and analyzeSearchTerms(searchTermData)
AnalysisOf(upload) ==
  analyzeSearchTerms(parseExcelData([i \in 1..Len(upload) |-> readRow(upload[i])]), CONFIG)

\* the counters written to the row and returned in the summary
CountersOf(analysisResult) == [f \in CounterFields |-> analysisResult[f]]

NoCall == [op |-> "none", pc |-> "idle"]

Call(op, input) ==
  [op |-> op, input |-> input, pc |-> "start", reportId |-> 0, report |-> Undefined,
   result |-> Undefined, error |-> Undefined]

Ended(call) == call.pc \in {"idle", "returned", "thrown"}

Returns(call, result) == [call EXCEPT !.pc = "returned", !.result = Some(result)]
Throws(call, error) == [call EXCEPT !.pc = "thrown", !.error = Some(error)]

\* variant: the caller need not own the report
MayAccess_AnyUser(report, user) == report # Undefined

\* !(!report || report.userId !== ctx.user.id)
MayAccess(report, user) == report # Undefined /\ report[1].userId = user

InitReports ==
  /\ reports = << >>
  /\ nextId = 1
  /\ calls = [u \in Users |-> NoCall]
  /\ EngineIdle /\ SplitIdle /\ FeatureWordsIdle /\ SuggestIdle /\ IngestIdle

OthersUnchanged ==
  UNCHANGED <<engineVars, splitVars, featureWordVars, suggestVars, ingestVars>>

\* a user invokes a procedure of the router
Invoke(user, op, input) ==
  /\ Ended(calls[user])
  /\ op = "create" => nextId <= MaxReports
  /\ calls' = [calls EXCEPT ![user] = Call(op, input)]
  /\ UNCHANGED <<reports, nextId>>
  /\ OthersUnchanged

\* analysis.create up to the end of createAnalysisReport
CreateInsert(user, executes) ==
  /\ calls[user].op = "create" /\ calls[user].pc = "start"
  /\ IF executes
     THEN /\ reports' = createAnalysisReport(reports, nextId,
                                             [userId |-> user, status |-> "processing"])
          /\ nextId' = nextId + 1
          /\ calls' = [calls EXCEPT ![user] = [@ EXCEPT !.pc = "try", !.reportId = nextId]]
     ELSE /\ calls' = [calls EXCEPT ![user] = Throws(@, StatementRejected)]
          /\ UNCHANGED <<reports, nextId>>
  /\ OthersUnchanged

\* the try block: the analysis and the update to 'completed'
CreateComplete(user, executes) ==
  /\ calls[user].op = "create" /\ calls[user].pc = "try"
  /\ LET analysisResult == AnalysisOf(calls[user].input)
     IN IF executes
        THEN /\ reports' = updateAnalysisReport(reports, calls[user].reportId,
                             [status |-> "completed"] @@ CountersOf(analysisResult))
             /\ calls' = [calls EXCEPT ![user] =
                            Returns(@, [success |-> TRUE, reportId |-> calls[user].reportId,
                                        summary |-> CountersOf(analysisResult)])]
        ELSE /\ calls' = [calls EXCEPT ![user] =
                            [@ EXCEPT !.pc = "catch", !.error = Some(StatementRejected)]]
             /\ UNCHANGED reports
  /\ UNCHANGED nextId
  /\ OthersUnchanged

\* the catch block: the update to 'failed', then throw error
CreateFail(user, executes) ==
  /\ calls[user].op = "create" /\ calls[user].pc = "catch"
  /\ IF executes
     THEN /\ reports' = updateAnalysisReport(reports, calls[user].reportId,
                          [status |-> "failed", errorMessage |-> calls[user].error])
          /\ calls' = [calls EXCEPT ![user] = Throws(@, calls[user].error[1])]
     ELSE /\ calls' = [calls EXCEPT ![user] = Throws(@, StatementRejected)]
          /\ UNCHANGED reports
  /\ UNCHANGED nextId
  /\ OthersUnchanged

\* analysis.get
Get(user, executes) ==
  /\ calls[user].op = "get" /\ calls[user].pc = "start"
  /\ IF executes
     THEN LET report == getAnalysisReportById(reports, calls[user].input)
          IN calls' = [calls EXCEPT ![user] =
                         IF MayAccess(report, user)
                         THEN [@ EXCEPT !.pc = "returned", !.report = report, !.result = report]
                         ELSE [@ EXCEPT !.pc = "returned", !.report = report,
                                        !.result = Undefined]]
     ELSE calls' = [calls EXCEPT ![user] = Throws(@, StatementRejected)]
  /\ UNCHANGED <<reports, nextId>>
  /\ OthersUnchanged

\* analysis.delete up to the end of getAnalysisReportById and the ownership test
DeleteLookup(user, executes) ==
  /\ calls[user].op = "delete" /\ calls[user].pc = "start"
  /\ IF executes
     THEN LET report == getAnalysisReportById(reports, calls[user].input)
          IN calls' = [calls EXCEPT ![user] =
                         IF MayAccess(report, user)
                         THEN [@ EXCEPT !.pc = "delete", !.report = report]
                         ELSE Throws([@ EXCEPT !.report = report], ReportNotFound)]
     ELSE calls' = [calls EXCEPT ![user] = Throws(@, StatementRejected)]
  /\ UNCHANGED <<reports, nextId>>
  /\ OthersUnchanged

\* await deleteAnalysisReport(input.id); return { success: true }
DeleteRemove(user, executes) ==
  /\ calls[user].op = "delete" /\ calls[user].pc = "delete"
  /\ IF executes
     THEN /\ reports' = deleteAnalysisReport(reports, calls[user].input)
          /\ calls' = [calls EXCEPT ![user] = Returns(@, [success |-> TRUE])]
     ELSE /\ calls' = [calls EXCEPT ![user] = Throws(@, StatementRejected)]
          /\ UNCHANGED reports
  /\ UNCHANGED nextId
  /\ OthersUnchanged

NextReports ==
  \E user \in Users :
    \/ \E upload \in Uploads : Invoke(user, "create", upload)
    \/ \E id \in 1..MaxReports : Invoke(user, "get", id)
    \/ \E id \in 1..MaxReports : Invoke(user, "delete", id)
    \/ \E executes \in BOOLEAN : CreateInsert(user, executes)
    \/ \E executes \in BOOLEAN : CreateComplete(user, executes)
    \/ \E executes \in BOOLEAN : CreateFail(user, executes)
    \/ \E executes \in BOOLEAN : Get(user, executes)
    \/ \E executes \in BOOLEAN : DeleteLookup(user, executes)
    \/ \E executes \in BOOLEAN : DeleteRemove(user, executes)

SpecReports == InitReports /\ [][NextReports]_vars

----------------------------------------------------------------------------
(* Properties *)

Suggestions ==
  {"Increase_Bid", "Decrease_Bid", "Exact_Negative", "Phrase_Negative", "Reasonable", "Pending"}

Range(f) == {f[x] : x \in DOMAIN f}

\* the feature words of input record i
Words(i) == splitToFeatureWords(data[i].searchTerm)

\* its words that have aggregated clicks and no aggregated order
ZeroWords(i) ==
  {w \in Range(Words(i)) : FeatureStats[w].clicks > 0 /\ FeatureStats[w].orders = 0}

IncreaseBound == Mul(Base.targetAcos, config.INCREASE_BID_LV)
DecreaseBound == Mul(Base.targetAcos, config.DECREASE_BID_LV)

\* C1: every call returns a summary in which each input record has exactly one
\* result whose suggestion is one of the six categories, totalKeywords is the
\* number of input records and the five counters add up to totalKeywords.
C1_Totality ==
  Returned =>
    /\ S.totalKeywords = Len(data)
    /\ Len(S.results) = Len(data)
    /\ \A i \in DOMAIN S.results : S.results[i].suggestion \in Suggestions
    /\ S.increaseBidCount + S.decreaseBidCount + S.negativeCount
         + S.reasonableCount + S.pendingCount = S.totalKeywords

C1_Witness ==
  /\ Returned
  /\ Len(data) = 3
  /\ S.negativeCount > 0 /\ S.increaseBidCount > 0 /\ S.pendingCount > 0

\* C2: a record whose own ACOS is below the increase bound but whose only
\* feature word has clicks, no order and at least phraseNegativeClickThreshold
\* clicks is Phrase_Negative (hence not Increase_Bid).
C2_NegationBeforeBid ==
  Returned =>
    \A i \in DOMAIN data :
      ( /\ Len(Words(i)) = 1
        /\ Words(i)[1] \in ZeroWords(i)
        /\ Ge(I(FeatureStats[Words(i)[1]].clicks), Base.phraseNegativeClickThreshold)
        /\ Lt(data[i].acos, IncreaseBound) )
      => S.results[i].suggestion = "Phrase_Negative"

C2_Witness ==
  /\ Returned
  /\ \E i \in DOMAIN data :
       /\ Len(Words(i)) = 1
       /\ Words(i)[1] \in ZeroWords(i)
       /\ Ge(I(FeatureStats[Words(i)[1]].clicks), Base.phraseNegativeClickThreshold)
       /\ Gt(data[i].acos, I(0))
       /\ Lt(data[i].acos, IncreaseBound)
       /\ S.results[i].suggestion = "Phrase_Negative"

\* C3: when the overall conversion rate is 0 and the negation and reliability
\* levels are positive, the click thresholds are infinite, no record is
\* Exact_Negative or Phrase_Negative and every record without orders is Pending.
C3_ZeroRateMeansPending ==
  ( /\ Returned
    /\ S.overallConversionRate = I(0)
    /\ Gt(config.EXACT_NEGATIVE_LV, I(0))
    /\ Gt(config.PHRASE_NEGATIVE_LV, I(0))
    /\ Gt(config.RELIABILITY, I(0)) )
  =>
    /\ Base.exactNegativeClickThreshold = Infinity
    /\ Base.phraseNegativeClickThreshold = Infinity
    /\ Base.reliabilityClickThreshold = Infinity
    /\ \A i \in DOMAIN data :
         /\ S.results[i].suggestion \notin {"Exact_Negative", "Phrase_Negative"}
         /\ data[i].orders = 0 => S.results[i].suggestion = "Pending"

C3_Witness ==
  /\ Returned
  /\ S.overallConversionRate = I(0)
  /\ IsPositiveConfig(config)
  /\ \E i \in DOMAIN data :
       /\ \E w \in ZeroWords(i) : FeatureStats[w].clicks >= MinPhraseNegativeClicks
       /\ S.results[i].suggestion = "Pending"

\* t = max(floor, ceil(level / (rate/100))), stated without division:
\* t is an integer, at least floor and at least level*100/rate, and is either
\* floor itself or less than one above level*100/rate
IsClickThreshold(t, floor, level, rate) ==
  /\ IsFinite(t) /\ t.d = 1
  /\ t.n >= floor
  /\ Ge(Mul(t, rate), Mul(level, I(100)))
  /\ t.n = floor \/ Lt(Mul(I(t.n - 1), rate), Mul(level, I(100)))

\* C4: with a positive overall conversion rate and positive configuration values,
\* targetAcos = max(20, overallAcos / targetAcosIndex), the exact threshold is
\* max(5, ceil(exactNegativeLv / (rate/100))) and the phrase threshold is
\* max(50, ceil(phraseNegativeLv / (rate/100))); a rate of 4% with level 1.0
\* gives an exact threshold of 25.
C4_BaselineDerivation ==
  ( /\ Returned
    /\ Gt(S.overallConversionRate, I(0))
    /\ IsPositiveConfig(config) )
  =>
    /\ Ge(Base.targetAcos, I(20))
    /\ Ge(Mul(Base.targetAcos, config.TARGET_ACOS_INDEX), S.overallAcos)
    /\ \/ Base.targetAcos = I(20)
       \/ Mul(Base.targetAcos, config.TARGET_ACOS_INDEX) = S.overallAcos
    /\ IsClickThreshold(Base.exactNegativeClickThreshold, 5,
                        config.EXACT_NEGATIVE_LV, S.overallConversionRate)
    /\ IsClickThreshold(Base.phraseNegativeClickThreshold, 50,
                        config.PHRASE_NEGATIVE_LV, S.overallConversionRate)
    /\ (S.overallConversionRate = I(4) /\ config.EXACT_NEGATIVE_LV = I(1))
         => Base.exactNegativeClickThreshold = I(25)

C4_Witness ==
  /\ Returned
  /\ S.overallConversionRate = I(4)
  /\ config = CONFIG
  /\ Base.exactNegativeClickThreshold = I(25)
  /\ Base.phraseNegativeClickThreshold = I(125)

\* the summary a call yields for a batch when it is the only batch ever analysed
SoloSummary(terms, cfg) ==
  Summarize(terms, cfg, Baseline(terms, cfg), buildFeatureWordStatsFrom(<< >>, terms))

\* C6: a call leaves its records and its configuration as they were, and the
\* summary of every call of a session is the summary its batch yields when it
\* is analysed alone, whatever was analysed before it.
C6_BatchesIndependent ==
  /\ Returned => /\ log # << >>
                 /\ log[Len(log)].data = data
                 /\ log[Len(log)].config = config
                 /\ log[Len(log)].summary = S
  /\ \A k \in DOMAIN log : log[k].summary = SoloSummary(log[k].data, log[k].config)

C6_Witness ==
  /\ Len(log) = 2
  /\ \E j \in DOMAIN log[1].data :
       log[1].data[j].searchTerm = TermAb /\ log[1].data[j].orders > 0
  /\ Len(log[2].data) = 1
  /\ log[2].data[1].searchTerm = TermAb
  /\ log[2].data[1].orders = 0
  /\ log[2].summary.results[1].problemKeyword = TermAb

\* C7: results has one entry per input record, in input order, and entry i
\* carries the twelve input fields of record i unchanged.
C7_ResultsMirrorInput ==
  Returned =>
    /\ Len(S.results) = Len(data)
    /\ \A i \in DOMAIN data :
         /\ S.results[i].searchTerm = data[i].searchTerm
         /\ S.results[i].impressions = data[i].impressions
         /\ S.results[i].clicks = data[i].clicks
         /\ S.results[i].spend = data[i].spend
         /\ S.results[i].sales = data[i].sales
         /\ S.results[i].orders = data[i].orders
         /\ S.results[i].acos = data[i].acos
         /\ S.results[i].ctr = data[i].ctr
         /\ S.results[i].cvr = data[i].cvr
         /\ S.results[i].cpc = data[i].cpc
         /\ S.results[i].campaign = data[i].campaign
         /\ S.results[i].adGroup = data[i].adGroup

C7_Witness ==
  /\ Returned
  /\ Len(data) = 3
  /\ data[1].searchTerm # data[2].searchTerm
  /\ data[2].searchTerm # data[3].searchTerm
  /\ data[1].campaign # data[3].campaign
  /\ \A i \in DOMAIN data : data[i].ctr # data[i].cvr
  /\ S.results[1].suggestion # S.results[2].suggestion

\* C8: when a record has words with clicks and no order, problemKeyword is one
\* of them with the highest click count, and the record is Phrase_Negative
\* (0.8) if that count reaches the phrase threshold, else Exact_Negative (0.7)
\* if it reaches the exact threshold, else Pending.
C8_ZeroConversionWord ==
  Returned =>
    \A i \in DOMAIN data :
      ZeroWords(i) # {} =>
        LET r == S.results[i]
            zeroCvrWord == r.problemKeyword
        IN /\ zeroCvrWord \in ZeroWords(i)
           /\ \A w \in ZeroWords(i) : FeatureStats[zeroCvrWord].clicks >= FeatureStats[w].clicks
           /\ IF Ge(I(FeatureStats[zeroCvrWord].clicks), Base.phraseNegativeClickThreshold)
              THEN r.suggestion = "Phrase_Negative" /\ r.confidence = Rat(8, 10)
              ELSE IF Ge(I(FeatureStats[zeroCvrWord].clicks), Base.exactNegativeClickThreshold)
              THEN r.suggestion = "Exact_Negative" /\ r.confidence = Rat(7, 10)
              ELSE r.suggestion = "Pending"

C8_Witness ==
  /\ Returned
  /\ \E i \in DOMAIN data :
       /\ \E v, w \in ZeroWords(i) : FeatureStats[v].clicks < FeatureStats[w].clicks
       /\ S.results[i].problemKeyword # Words(i)[1]
       /\ S.results[i].suggestion = "Exact_Negative"
  /\ \E j \in DOMAIN data :
       /\ data[j].clicks = 50 /\ data[j].orders = 0
       /\ Lt(Base.exactNegativeClickThreshold, I(50))
       /\ Gt(Base.phraseNegativeClickThreshold, I(50))
       /\ S.results[j].suggestion = "Exact_Negative"

\* min(cap, (base + 5 * orders) / 100)
CappedConfidence(base, orders, cap) ==
  IF base + 5 * orders > cap THEN Rat(cap, 100) ELSE Rat(base + 5 * orders, 100)

\* C9: a record with orders and no zero-conversion word reports its own ACOS as
\* estimatedAcos and is Increase_Bid below the increase bound, Decrease_Bid above
\* the decrease bound and Reasonable otherwise, bounds included, with confidence
\* min(0.99, 0.5 + 0.05*orders) resp. min(0.85, 0.4 + 0.05*orders).
C9_OwnAcosBands ==
  Returned =>
    \A i \in DOMAIN data :
      (data[i].orders > 0 /\ ZeroWords(i) = {}) =>
        LET r == S.results[i]
        IN /\ r.estimatedAcos = Some(data[i].acos)
           /\ Lt(data[i].acos, IncreaseBound) =>
                /\ r.suggestion = "Increase_Bid"
                /\ r.confidence = CappedConfidence(50, data[i].orders, 99)
           /\ Gt(data[i].acos, DecreaseBound) =>
                /\ r.suggestion = "Decrease_Bid"
                /\ r.confidence = CappedConfidence(50, data[i].orders, 99)
           /\ (~Lt(data[i].acos, IncreaseBound) /\ ~Gt(data[i].acos, DecreaseBound)) =>
                /\ r.suggestion = "Reasonable"
                /\ r.confidence = CappedConfidence(40, data[i].orders, 85)

C9_Witness ==
  /\ Returned
  /\ \E i, j, k \in DOMAIN data :
       /\ data[i].orders > 0 /\ data[i].acos = IncreaseBound
       /\ S.results[i].suggestion = "Reasonable"
       /\ data[j].orders > 0 /\ data[j].acos = DecreaseBound
       /\ S.results[j].suggestion = "Reasonable"
       /\ S.results[k].suggestion = "Increase_Bid"

\* the positive conversion rates of the words of record i
PositiveRates(i) ==
  {rate \in {FeatureStats[w].conversionRate : w \in Range(Words(i))} : Gt(rate, I(0))}

\* record i reaches step 3
ReachesEstimate(i) ==
  /\ data[i].orders = 0 /\ data[i].clicks > 0 /\ Gt(data[i].cpc, I(0))
  /\ ZeroWords(i) = {}
  /\ PositiveRates(i) # {}

\* C10: for a record without orders, with clicks and cpc, without a
\* zero-conversion word and with a converting word, minCvr is the least positive
\* conversion rate of its words and minClicksWord a word with the fewest clicks;
\* below the reliability threshold the record is Pending with that word as
\* problemKeyword, otherwise the band test is applied to the estimated ACOS with
\* confidence 0.6 (bid) or 0.5 (Reasonable).
C10_EstimateFromWords ==
  Returned =>
    \A i \in DOMAIN data :
      ReachesEstimate(i) =>
        LET r == S.results[i]
            fw == getMinFeatureWordConversionRate(data[i].searchTerm, FeatureStats)
        IN /\ fw.minCvr \in PositiveRates(i)
           /\ \A rate \in PositiveRates(i) : ~Lt(rate, fw.minCvr)
           /\ fw.minClicksWord \in Range(Words(i))
           /\ fw.minClicks = I(FeatureStats[fw.minClicksWord].clicks)
           /\ \A w \in Range(Words(i)) : FeatureStats[w].clicks >= fw.minClicks.n
           /\ r.estimatedAcos # Undefined
           /\ IF Lt(fw.minClicks, Base.reliabilityClickThreshold)
              THEN r.suggestion = "Pending" /\ r.problemKeyword = fw.minClicksWord
              ELSE IF Lt(r.estimatedAcos[1], IncreaseBound)
              THEN r.suggestion = "Increase_Bid" /\ r.confidence = Rat(6, 10)
              ELSE IF Gt(r.estimatedAcos[1], DecreaseBound)
              THEN r.suggestion = "Decrease_Bid" /\ r.confidence = Rat(6, 10)
              ELSE r.suggestion = "Reasonable" /\ r.confidence = Rat(5, 10)

C10_Witness ==
  /\ Returned
  /\ \E i \in DOMAIN data :
       /\ ReachesEstimate(i)
       /\ Cardinality(PositiveRates(i)) = 2
       /\ \E v, w \in Range(Words(i)) : FeatureStats[v].clicks < FeatureStats[w].clicks
       /\ S.results[i].suggestion \in {"Increase_Bid", "Decrease_Bid"}
       /\ S.results[i].confidence = Rat(6, 10)

\* the denominator (minCvr/100) * averageOrderValue of the step-3 estimate of
\* record i, computed from observable values
EstimateDenominator(i) ==
  Mul(Div(getMinFeatureWordConversionRate(data[i].searchTerm, FeatureStats).minCvr, I(100)),
      S.averageOrderValue)

C11_InfiniteEstimate ==
  /\ Returned
  /\ \E i \in DOMAIN data :
       /\ ReachesEstimate(i)
       /\ EstimateDenominator(i) = I(0)
       /\ S.results[i].estimatedAcos = Some(Infinity)
       /\ S.results[i].suggestion = "Decrease_Bid"

\* none of steps 1-3 fires on record i
ReachesFallback(i) ==
  /\ ZeroWords(i) = {}
  /\ data[i].orders = 0
  /\ ~(PositiveRates(i) # {} /\ data[i].clicks > 0 /\ Gt(data[i].cpc, I(0)))

\* C12: a record on which steps 1-3 do not fire is Pending with confidence 0.3,
\* no problemKeyword and no estimatedAcos, with or without clicks and spend;
\* a record with no clicks and no orders is never Increase_Bid, Decrease_Bid or
\* Reasonable.
C12_FallbackIsPending ==
  Returned =>
    \A i \in DOMAIN data :
      LET r == S.results[i]
      IN /\ ReachesFallback(i) =>
              /\ r.suggestion = "Pending"
              /\ r.confidence = Rat(3, 10)
              /\ r.problemKeyword = NoWord
              /\ r.estimatedAcos = Undefined
         /\ (data[i].clicks = 0 /\ data[i].orders = 0) =>
              r.suggestion \notin {"Increase_Bid", "Decrease_Bid", "Reasonable"}

C12_Witness ==
  /\ Returned
  /\ \E i, j \in DOMAIN data :
       /\ ReachesFallback(i) /\ data[i].clicks = 0 /\ PositiveRates(i) # {}
       /\ S.results[i].suggestedAction = "words_convert_term_has_no_clicks"
       /\ ReachesFallback(j) /\ data[j].clicks > 0 /\ data[j].spend > 0
       /\ S.results[j].suggestedAction = "insufficient_data"

\* C13: a call with a non-positive targetAcosIndex is rejected: it returns no
\* summary and classifies no record.
C13_InvalidConfigRejected ==
  ~Gt(config.TARGET_ACOS_INDEX, I(0)) => (~Returned /\ run = Undefined /\ log = << >>)

\* the input records whose search term contains token t
RecordsContaining(t) == {i \in DOMAIN data : t \in Range(Words(i))}

\* the sum of a field over a set of input records
RECURSIVE SumField(_, _)
SumField(records, field) ==
  IF records = {} THEN 0
  ELSE LET i == CHOOSE j \in records : TRUE
       IN data[i][field] + SumField(records \ {i}, field)

\* C15: the feature-word mapping has one entry per distinct token of the batch,
\* whose clicks, orders, spend and sales are the sums over the records that
\* contain the token, each record counted once, and whose conversionRate is
\* orders/clicks*100, or 0 without clicks.
C15_AggregatesPerRecord ==
  Returned =>
    /\ DOMAIN FeatureStats = UNION {Range(Words(i)) : i \in DOMAIN data}
    /\ \A t \in DOMAIN FeatureStats :
         LET stats == FeatureStats[t]
         IN /\ stats.word = t
            /\ stats.clicks = SumField(RecordsContaining(t), "clicks")
            /\ stats.orders = SumField(RecordsContaining(t), "orders")
            /\ stats.spend = SumField(RecordsContaining(t), "spend")
            /\ stats.sales = SumField(RecordsContaining(t), "sales")
            /\ IF stats.clicks > 0
               THEN Mul(stats.conversionRate, I(stats.clicks)) = I(100 * stats.orders)
               ELSE stats.conversionRate = I(0)

\* the lower-cased text given to the tokenizer
LowerText == toLowerCase(text[1])

\* positions a..b of s are a maximal run without a character of D
IsPiece(s, D, a, b) ==
  /\ a <= b
  /\ \A k \in a..b : s[k] \notin D
  /\ a = 1 \/ s[a - 1] \in D
  /\ b = Len(s) \/ s[b + 1] \in D

\* the pieces of the text that are to be kept, as pairs of positions
KeptPieces ==
  {p \in (1..Len(LowerText)) \X (1..Len(LowerText)) :
     /\ IsPiece(LowerText, FWA_Delimiters, p[1], p[2])
     /\ p[2] - p[1] + 1 >= 2
     /\ p[2] - p[1] + 1 <= 50
     /\ \E k \in p[1]..p[2] : LowerText[k] \notin Digits
     /\ SubSeq(LowerText, p[1], p[2]) \notin FWA_stopWords}

\* C14: the tokenizer of featureWordAnalyzer returns, in order of occurrence,
\* the lower-cased pieces between delimiters that have 2 to 50 characters, are
\* not purely numeric and are not stop words; null and the empty string give
\* the empty sequence, "sugar-free vitamin-c" gives sugar, free, vitamin and
\* "vitamin d3 5000 iu" gives vitamin, d3, iu.
C14_FeatureWordsOfText ==
  splitWords # Undefined =>
    LET w == splitWords[1]
    IN IF text = Undefined \/ text[1] = << >> THEN w = << >>
       ELSE /\ Len(w) = Cardinality(KeptPieces)
            /\ \A k \in 1..Len(w) :
                 \E p \in KeptPieces :
                   /\ Cardinality({q \in KeptPieces : q[1] < p[1]}) = k - 1
                   /\ w[k] = SubSeq(LowerText, p[1], p[2])
            /\ text = Some(TextSugarFree) => w = <<<<"s","u","g","a","r">>, <<"f","r","e","e">>, <<"v","i","t","a","m","i","n">>>>
            /\ text = Some(TextVitaminD3) => w = <<<<"v","i","t","a","m","i","n">>, <<"d","3">>, <<"i","u">>>>

C14_Witness ==
  /\ text = Some(TextSugarFree)
  /\ splitWords # Undefined
  /\ Len(splitWords[1]) = 3

\* the feature words of search term i of the feature-word analysis
InputWords(i) == FWA_splitToFeatureWords(Some(searchTerms[i].searchTerm))

\* the search terms that contain word w
TermsContaining(w) == {i \in DOMAIN searchTerms : w \in Range(InputWords(i))}

\* the sum of a field over a set of search terms, a missing field being 0
RECURSIVE SumInputField(_, _)
SumInputField(indices, field) ==
  IF indices = {} THEN 0
  ELSE LET i == CHOOSE j \in indices : TRUE
       IN OrZero(searchTerms[i][field]) + SumInputField(indices \ {i}, field)

\* C16: analyzeFeatureWords reports one entry per distinct feature word, with
\* count = the number of search terms containing the word, the five totals =
\* the sums over those search terms (missing fields as 0), conversionRate =
\* totalOrders/totalClicks*100, acos = totalSpend/totalSales*100 and avgCpc =
\* totalSpend/totalClicks (each 0 on a zero divisor); totalSearchTerms is the
\* input length and totalFeatureWords the number of distinct words.
C16_FeatureWordTotals ==
  analysis # Undefined =>
    LET A == analysis[1]
        allWords == UNION {Range(InputWords(i)) : i \in DOMAIN searchTerms}
    IN /\ A.totalSearchTerms = Len(searchTerms)
       /\ A.totalFeatureWords = Cardinality(allWords)
       /\ Len(A.featureWords) = Cardinality(allWords)
       /\ {A.featureWords[k].word : k \in DOMAIN A.featureWords} = allWords
       /\ \A k \in DOMAIN A.featureWords :
            LET fw == A.featureWords[k]
                containing == TermsContaining(fw.word)
            IN /\ fw.count = Cardinality(containing)
               /\ fw.totalClicks = SumInputField(containing, "clicks")
               /\ fw.totalOrders = SumInputField(containing, "orders")
               /\ fw.totalSpend = SumInputField(containing, "spend")
               /\ fw.totalSales = SumInputField(containing, "sales")
               /\ fw.totalImpressions = SumInputField(containing, "impressions")
               /\ IF fw.totalClicks > 0
                  THEN /\ Mul(fw.conversionRate, I(fw.totalClicks)) = I(100 * fw.totalOrders)
                       /\ Mul(fw.avgCpc, I(fw.totalClicks)) = I(fw.totalSpend)
                  ELSE fw.conversionRate = I(0) /\ fw.avgCpc = I(0)
               /\ IF fw.totalSales > 0
                  THEN Mul(fw.acos, I(fw.totalSales)) = I(100 * fw.totalSpend)
                  ELSE fw.acos = I(0)

\* the input terms that are to be suggested
Suggestible ==
  {i \in DOMAIN inputTerms :
     /\ inputTerms[i].orders > 0
     /\ Gt(inputTerms[i].acos, I(0))
     /\ Lt(inputTerms[i].acos, targetAcos)}

\* the input terms named by suggestion j
TermsNamed(j) == {i \in DOMAIN inputTerms : inputTerms[i].term = suggestions[1][j].keyword}

\* the ACOS of the term of suggestion j (terms have distinct names)
AcosOfSuggestion(j) == inputTerms[CHOOSE i \in TermsNamed(j) : TRUE].acos

\* C17: the suggestions are made for terms with orders and 0 < acos < targetAcos
\* only, one per term, in ascending order of ACOS; all such terms are suggested
\* up to 20, and beyond 20 the ones left out have no lower ACOS than the ones
\* kept; every suggestion has type exact and no input gives no suggestion.
C17_SuggestionsAreHighPerformers ==
  suggestions # Undefined =>
    LET out == suggestions[1]
    IN /\ Len(out) = IF Cardinality(Suggestible) < 20 THEN Cardinality(Suggestible) ELSE 20
       /\ inputTerms = << >> => out = << >>
       /\ \A j \in DOMAIN out :
            /\ TermsNamed(j) # {}
            /\ TermsNamed(j) \subseteq Suggestible
            /\ out[j].type = "exact"
       /\ \A j, k \in DOMAIN out :
            j < k => /\ out[j].keyword # out[k].keyword
                     /\ ~Gt(AcosOfSuggestion(j), AcosOfSuggestion(k))
       /\ \A i \in Suggestible :
            (\A j \in DOMAIN out : i \notin TermsNamed(j)) =>
              \A j \in DOMAIN out : ~Gt(AcosOfSuggestion(j), inputTerms[i].acos)

C17_Witness ==
  /\ suggestions # Undefined
  /\ Cardinality(Suggestible) > 20
  /\ Len(suggestions[1]) = 20
  /\ \E i \in DOMAIN inputTerms : inputTerms[i].orders = 0
  /\ suggestions[1][1].keyword # inputTerms[1].term

\* every relevance is an integer from 0 to 100
RelevanceInRange ==
  \A j \in DOMAIN suggestions[1] :
    LET r == suggestions[1][j].relevance
    IN IsFinite(r) /\ r.d = 1 /\ r.n >= 0 /\ r.n <= 100

\* C18 as stated: of two suggestions, the one whose term has the lower ACOS has
\* the strictly higher relevance; every relevance is in 0..100.
C18_RelevanceStrictlyDecreasing ==
  suggestions # Undefined =>
    /\ RelevanceInRange
    /\ \A j, k \in DOMAIN suggestions[1] :
         Lt(AcosOfSuggestion(j), AcosOfSuggestion(k)) =>
           Gt(suggestions[1][j].relevance, suggestions[1][k].relevance)

\* C18 (amended): of two suggestions, the one whose term has the lower ACOS
\* never has the lower relevance; every relevance is in 0..100.
C18_RelevanceNeverIncreasing ==
  suggestions # Undefined =>
    /\ RelevanceInRange
    /\ \A j, k \in DOMAIN suggestions[1] :
         Lt(AcosOfSuggestion(j), AcosOfSuggestion(k)) =>
           Ge(suggestions[1][j].relevance, suggestions[1][k].relevance)

C18_Witness ==
  /\ suggestions # Undefined
  /\ \E j, k \in DOMAIN suggestions[1] :
       /\ Lt(AcosOfSuggestion(j), AcosOfSuggestion(k))
       /\ suggestions[1][j].relevance = suggestions[1][k].relevance
  /\ \E j, k \in DOMAIN suggestions[1] :
       Gt(suggestions[1][j].relevance, suggestions[1][k].relevance)

\* the array of feature words of the analysis
FeatureWords == analysis[1].featureWords

\* C19: getHighPerformingFeatureWords returns exactly the feature words with
\* totalClicks >= minClicks, orders and 0 < acos <= maxAcos, in ascending order
\* of acos, and leaves analysis.featureWords as analyzeFeatureWords built it.
C19_HighPerformers ==
  highPerformers # Undefined =>
    LET call == highPerformers[1]
        out == call.returned
    IN /\ Range(out) =
            {fw \in Range(FeatureWords) :
               /\ fw.totalClicks >= call.minClicks
               /\ fw.totalOrders > 0
               /\ Gt(fw.acos, I(0))
               /\ Lt(fw.acos, call.maxAcos) \/ fw.acos = call.maxAcos}
       /\ Cardinality(Range(out)) = Len(out)
       /\ \A j, k \in DOMAIN out : j < k => ~Gt(out[j].acos, out[k].acos)
       /\ FeatureWords = analyzeFeatureWords(searchTerms).featureWords

C19_Witness ==
  /\ highPerformers # Undefined
  /\ Len(highPerformers[1].returned) >= 2
  /\ \E i, j \in DOMAIN FeatureWords :
       /\ i < j
       /\ FeatureWords[j] = highPerformers[1].returned[1]
       /\ FeatureWords[i] = highPerformers[1].returned[2]
  /\ \E i \in DOMAIN FeatureWords :
       /\ FeatureWords[i].acos = highPerformers[1].maxAcos
       /\ FeatureWords[i] \in Range(highPerformers[1].returned)

\* C20: getProblemFeatureWords returns exactly the feature words with
\* totalClicks >= minClicks and no order, in descending order of totalClicks.
C20_ProblemWords ==
  problemWords # Undefined =>
    LET call == problemWords[1]
        out == call.returned
    IN /\ Range(out) =
            {fw \in Range(FeatureWords) :
               fw.totalClicks >= call.minClicks /\ fw.totalOrders = 0}
       /\ Cardinality(Range(out)) = Len(out)
       /\ \A j, k \in DOMAIN out : j < k => out[j].totalClicks >= out[k].totalClicks
       /\ \A j \in DOMAIN out : out[j].totalOrders = 0

C20_Witness ==
  /\ problemWords # Undefined
  /\ Len(problemWords[1].returned) >= 2
  /\ problemWords[1].returned[1].totalClicks > problemWords[1].returned[2].totalClicks
  /\ \E i \in DOMAIN FeatureWords :
       /\ FeatureWords[i].totalOrders > 0
       /\ FeatureWords[i].totalSales = 0
       /\ FeatureWords[i].totalClicks >= problemWords[1].minClicks

\* C21: for every batch of records with non-negative orders, the confidence of
\* every result lies between 0 and 1, bounds included.
C21_ConfidenceInUnitInterval ==
  (Returned /\ \A i \in DOMAIN data : data[i].orders >= 0) =>
    \A i \in DOMAIN S.results :
      Ge(S.results[i].confidence, I(0)) /\ Ge(I(1), S.results[i].confidence)

\* a record whose orders would take 0.5 + 0.05*orders above 1 is capped at 0.99
C21_Witness ==
  /\ Returned
  /\ \E i \in DOMAIN data :
       /\ 50 + 5 * data[i].orders > 100
       /\ S.results[i].suggestion = "Decrease_Bid"
       /\ S.results[i].confidence = Rat(99, 100)
  /\ \E j \in DOMAIN data : S.results[j].confidence = DefaultConfidence

\* whether some search-term column of an uploaded row holds a non-empty value
HasSearchTerm(row) ==
  \E k \in DOMAIN row.searchTerm :
    /\ row.searchTerm[k] # Undefined
    /\ row.searchTerm[k][1].type = "string" => row.searchTerm[k][1].value # << >>

\* the uploaded rows that have a search term, in input order
RowsWithSearchTerm == SelectSeq(fileData, HasSearchTerm)

\* the derived fields of a parsed record
DerivedFieldsHold(r) ==
  /\ r.acos = (IF r.sales > 0 THEN Mul(Div(I(r.spend), I(r.sales)), I(100)) ELSE I(0))
  /\ r.ctr = (IF r.impressions > 0 THEN Mul(Div(I(r.clicks), I(r.impressions)), I(100)) ELSE I(0))
  /\ r.cvr = (IF r.clicks > 0 THEN Mul(Div(I(r.orders), I(r.clicks)), I(100)) ELSE I(0))
  /\ r.cpc = (IF r.clicks > 0 THEN Div(I(r.spend), I(r.clicks)) ELSE I(0))

\* C22: parseExcelData drops exactly the rows whose search-term column is
\* missing or empty, keeps the other rows in input order, and derives acos, ctr,
\* cvr and cpc of each kept row from its spend, sales, clicks, impressions and
\* orders, with 0 when the divisor is not positive.
C22_KeepsRowsWithSearchTerm ==
  searchTermData # Undefined =>
    LET kept == searchTermData[1]
    IN /\ Len(kept) = Len(RowsWithSearchTerm)
       /\ \A i \in DOMAIN kept :
            /\ kept[i].impressions = readRow(RowsWithSearchTerm[i]).impressions
            /\ kept[i].clicks = readRow(RowsWithSearchTerm[i]).clicks
            /\ kept[i].spend = readRow(RowsWithSearchTerm[i]).spend
            /\ DerivedFieldsHold(kept[i])

\* C23: the tokens the engine derives from a search term (those of
\* adAnalyzer.splitToFeatureWords, used by buildFeatureWordStats and by the
\* record classifier) are the tokens featureWordAnalyzer.splitToFeatureWords
\* returns for the same text.
C23_SameTokens ==
  (splitWords # Undefined /\ text # Undefined) =>
    splitToFeatureWords(text[1]) = splitWords[1]

\* the number of results with one of the given suggestions
CountOf(suggestions_) ==
  Cardinality({i \in DOMAIN S.results : S.results[i].suggestion \in suggestions_})

\* C24: in every summary each of increaseBidCount, decreaseBidCount,
\* reasonableCount and pendingCount is the number of results with that
\* suggestion, and negativeCount is the number of results that are
\* Exact_Negative or Phrase_Negative.
C24_CountersMatchResults ==
  Returned =>
    /\ S.increaseBidCount = CountOf({"Increase_Bid"})
    /\ S.decreaseBidCount = CountOf({"Decrease_Bid"})
    /\ S.reasonableCount = CountOf({"Reasonable"})
    /\ S.pendingCount = CountOf({"Pending"})
    /\ S.negativeCount = CountOf({"Exact_Negative", "Phrase_Negative"})

\* a batch with an exact negation, a phrase negation and a bid increase
C24_Witness ==
  /\ Returned
  /\ CountOf({"Exact_Negative"}) = 1 /\ CountOf({"Phrase_Negative"}) = 1
  /\ S.negativeCount = 2
  /\ S.increaseBidCount = 1

\* C25: a record with orders and no sales, whose acos is the fallback 0, is
\* classified Pending; it is never Increase_Bid.
C25_NoSalesIsPending ==
  Returned =>
    \A i \in DOMAIN data :
      (data[i].orders > 0 /\ data[i].sales = 0) =>
        /\ data[i].acos = I(0)
        /\ S.results[i].suggestion = "Pending"

\* C26: every result whose suggestion is Pending has no estimatedAcos; in
\* particular a record that step 3 leaves Pending because its least-clicked
\* word has fewer clicks than reliabilityClickThreshold carries no estimate.
C26_PendingHasNoEstimate ==
  Returned =>
    \A i \in DOMAIN S.results :
      S.results[i].suggestion = "Pending" => S.results[i].estimatedAcos = Undefined

\* C29: in a batch whose records have non-negative clicks and orders, a record
\* with orders has no zero-conversion word, is Increase_Bid, Decrease_Bid or
\* Reasonable, reports its own acos and carries no problemKeyword.
C29_OrdersDecideOnOwnAcos ==
  (Returned /\ \A j \in DOMAIN data : data[j].clicks >= 0 /\ data[j].orders >= 0) =>
    \A i \in DOMAIN data :
      data[i].orders > 0 =>
        /\ ZeroWords(i) = {}
        /\ S.results[i].suggestion \in {"Increase_Bid", "Decrease_Bid", "Reasonable"}
        /\ S.results[i].estimatedAcos = Some(data[i].acos)
        /\ S.results[i].problemKeyword = NoWord

\* a record with orders after a record without orders that shares its word
C29_Witness ==
  /\ Returned
  /\ \E i, j \in DOMAIN data :
       /\ j < i
       /\ data[i].orders > 0
       /\ data[j].orders = 0 /\ data[j].clicks > 0
       /\ Range(Words(i)) \cap Range(Words(j)) # {}
       /\ S.results[i].suggestion = "Decrease_Bid"

\* a summary without its result list: the counters and the totals
CountersAndTotals(sm) == [f \in DOMAIN sm \ {"results"} |-> sm[f]]

----------------------------------------------------------------------------
(* C27: report ownership *)

\* an ended get holds a report only if the caller's id is the report's userId,
\* and holds null when the report it looked up was missing or another user's
GetOnlyToOwner ==
  \A user \in Users :
    LET call == calls[user]
    IN (call.op = "get" /\ call.pc = "returned") =>
         /\ call.result # Undefined =>
              call.result[1].userId = user /\ call.result[1].id = call.input
         /\ (call.report = Undefined \/ call.report[1].userId # user) =>
              call.result = Undefined

\* a step that removes a report is the return of a delete of it by its owner
RemovedByOwner ==
  \A id \in DOMAIN reports \ DOMAIN reports' :
    \E user \in Users :
      /\ calls[user].op = "delete" /\ calls[user].input = id
      /\ reports[id].userId = user
      /\ calls'[user].pc = "returned"

\* when delete has looked up a missing or foreign report it throws, the error is
\* "Report not found" unless the lookup itself was rejected, and no report is
\* removed or changed
DeleteRefused ==
  \A user \in Users :
    (calls[user].op = "delete" /\ calls[user].pc = "start" /\ calls'[user] # calls[user]) =>
      LET id == calls[user].input
          foreign == id \notin DOMAIN reports \/ reports[id].userId # user
      IN foreign =>
           /\ calls'[user].pc = "thrown"
           /\ calls'[user].error \in {Some(ReportNotFound), Some(StatementRejected)}
           /\ reports' = reports

\* C27: over any interleaving of create, get and delete calls of the users, get
\* returns a report only to the user whose id is the report's userId and null for a
\* missing or foreign report; delete removes a report only for its owner, and on a
\* missing or foreign report it throws "Report not found" and leaves the stored
\* reports as they were.
C27_ReportOwnership ==
  [] GetOnlyToOwner /\ [][RemovedByOwner /\ DeleteRefused]_vars

\* user 1 holds its own report from get while user 2's delete of that stored report
\* has thrown "Report not found"
C27_Witness ==
  \E owner \in Users : \E other \in Users \ {owner} :
    /\ calls[owner].op = "get" /\ calls[owner].pc = "returned"
    /\ calls[owner].result # Undefined
    /\ calls[owner].result[1].userId = owner
    /\ calls[other].op = "delete" /\ calls[other].pc = "thrown"
    /\ calls[other].error = Some(ReportNotFound)
    /\ calls[other].input \in DOMAIN reports
    /\ reports[calls[other].input].userId = owner

----------------------------------------------------------------------------
(* C28: report lifecycle *)

\* the report of a create call, while it is stored: 'processing' from the insert
\* until the call ends, 'completed' with the returned summary's counters after a
\* return, 'failed' with an errorMessage after a throw
LifecycleOfCall(user) ==
  LET call == calls[user]
  IN (call.op = "create" /\ call.reportId \in DOMAIN reports) =>
       LET report == reports[call.reportId]
       IN /\ call.pc \in {"try", "catch"} => report.status = "processing"
          /\ call.pc = "returned" =>
               /\ report.status = "completed"
               /\ \A f \in CounterFields : report[f] = call.result[1].summary[f]
          /\ call.pc = "thrown" =>
               /\ report.status = "failed"
               /\ report.errorMessage # Undefined

\* no step takes a stored report from 'completed' to 'failed'
NeverCompletedToFailed ==
  \A id \in DOMAIN reports \cap DOMAIN reports' :
    reports[id].status = "completed" => reports'[id].status # "failed"

\* C28: a report made by analysis.create is inserted as 'processing' and is no
\* longer 'processing' once the call has ended: 'completed' with counters equal to
\* the computed summary after a successful return, 'failed' with an errorMessage
\* after a throw, a failed database update included; and its status never goes from
\* 'completed' to 'failed'.
C28_ReportLifecycle ==
  [] (\A user \in Users : LifecycleOfCall(user)) /\ [][NeverCompletedToFailed]_vars

====
